---- MODULE Spec2Model ----
(***************************************************************************)
(* Realtime-Voice-Summarizer: the browser client public/app.js.            *)
(*                                                                         *)
(* The module holds five specifications over one set of variables:         *)
(*   Spec      the turn coordinator (push-to-talk, response gating,        *)
(*             finalization, confirm gate) driven by user input, timers    *)
(*             and provider events;                                        *)
(*   PttSpec   the coordinator's push-to-talk and transcript acceptance;   *)
(*   ReplySpec the coordinator's response tracking and finalization;       *)
(*   StateSpec the Perspective State store, the proposal queue and the     *)
(*             decision grid under arbitrary patch / proposal traffic;     *)
(*   IdemSpec  applyStatePatch as a function: inputs drawn in Init, the    *)
(*             same add-patch applied twice.                               *)
(*                                                                         *)
(* Strings are sequences of one-character strings so that trim() and       *)
(* toLowerCase() are computed and not assumed.                             *)
(***************************************************************************)
EXTENDS Integers, Sequences, FiniteSets, TLC

VARIABLES
  \* ---- Perspective State store / proposals / grid (app.js 153, 185-195)
  stateRef,        \* stateRef.current: bucket -> sequence of strings
  gateOpenRef,     \* gateOpenRef.current: definition gate
  proposalsRef,    \* proposalsRef.current: sequence of proposals
  gridMDRef,       \* gridMDRef.current: [options, criteria, cells]
  patchRet,        \* value returned by applyStatePatch if it was the last
                   \* store operation, else NoRet
  \* ---- applyStatePatch applied twice (IdemSpec)
  idemPatch,       \* the add-patch under test
  idemPc,          \* "off" | "start" | "once" | "twice"
  idemOnce,        \* stateRef after the first application
  \* ---- turn coordinator (Spec)
  connRef,               \* connRef.current and its data channel: "none" | "connecting" | "open"
  outboxRef,             \* outboxRef.current: messages queued by safeSend
  pttActiveRef,          \* pttActiveRef.current: the talk key is held
  heldLong,              \* Date.now() - pttStartAtRef.current >= MIN_PTT_MS
  manualCommitRef,       \* manualCommitRef.current
  windowOpen,            \* Date.now() <= commitWindowUntilRef.current
  turnCommittedRef,      \* turnCommittedRef.current
  expectResponseRef,     \* expectResponseRef.current
  currentResponseIdRef,  \* currentResponseIdRef.current, NoRid for null
  respPendingRef,        \* respPendingRef.current
  speakGateRef,          \* speakGateRef.current: the confirm gate is armed
  pendingSpeakRef,       \* pendingSpeakRef.current is not null
  confirmEnabled,        \* the confirm button is enabled
  unmuteWhenClearedRef,  \* unmuteWhenClearedRef.current
  muted,                 \* the assistant audio element is muted
  assistantSpeakingRef,  \* assistantSpeakingRef.current
  speakPolicyRef,        \* speakPolicyRef.current: "confirm" | "auto"
  tailPending,           \* onKeyUp waits in its 150 ms tail
  typedPending,          \* onUserTextSend calls waiting for their enrichment calls
  voicePending,          \* accepted transcripts whose handler waits for its calls
  finalizePending,       \* finalizeTurn calls waiting for reconcile and summary
  owed,                  \* response.create messages the provider has not answered
  provRid,               \* id of the latest response the provider started
  provPhase,             \* "none" before the first response of a session, "active" while one runs, else "idle"
  provSol,               \* that response answers a response.create of the coordinator
  finRuns,               \* finalizeTurn runs for the response tracked last
  awaitingClear,         \* a response.cancel was sent and no cleared event handled since
  fx,                    \* the last step: messages passed to safeSend, calls and log lines made
  \* ---- reconciliation (ReconcileSpec)
  reconcile,             \* one addAndReconcileForUserTurn call: its inputs, position and patches
  \* ---- proposal queue (QueueSpec)
  lastEnqueue,           \* the last enqueueProposals(list) call: Len(list) and how many it queued
  \* ---- data channel (OutboxSpec)
  channel,               \* calls: safeSend calls so far; sent: what dc.send took, in order
  \* ---- tool calls (ToolSpec)
  toolCall,              \* call id of the last function_call_arguments.done handled, NoCall if none
  \* ---- POST /propose (ProposeSpec)
  propose,               \* one POST /propose request: its body, the provider outcome and the answer
  \* ---- manual commits and their transcripts (CommitSpec)
  commits,               \* kept while commits.on: manual commits made, those not yet transcribed, the one the last transcript is of
  \* ---- microphone track and local speech recognition (MicSpec)
  mic,                   \* kept while mic.on: the sender carries the microphone track, recognition runs
  \* ---- two-engine client, voice engine (VoiceSpec)
  voice,                 \* part_001: the voice engine refs, the provider and the events in flight
  \* ---- enrichment calls of a turn (HelperSpec)
  helpers

storeVars == <<stateRef, gateOpenRef, proposalsRef, gridMDRef, patchRet>>
idemVars  == <<idemPatch, idemPc, idemOnce>>
turnVars ==
  <<connRef, outboxRef, pttActiveRef, heldLong, manualCommitRef, windowOpen,
    turnCommittedRef, expectResponseRef, currentResponseIdRef, respPendingRef, speakGateRef,
    pendingSpeakRef, confirmEnabled, unmuteWhenClearedRef, muted, assistantSpeakingRef,
    speakPolicyRef, tailPending, typedPending, voicePending, finalizePending, owed, provRid,
    provPhase, provSol, finRuns, awaitingClear, fx>>
focusVars == <<reconcile, lastEnqueue, channel, toolCall, propose, commits, mic, voice, helpers>>
vars == <<storeVars, idemVars, turnVars, focusVars>>

----------------------------------------------------------------------------
\* Bounds of the model

\* longest array of strings inside one bucket of a patch
MaxArr == 2
\* longest proposal queue explored by StateSpec
MaxQueue == 1

----------------------------------------------------------------------------
\* Strings

\* String.prototype.toLowerCase on one character
toLowerCaseChar(c) ==
  CASE c = "A" -> "a"
    [] c = "B" -> "b"
    [] c = "I" -> "i"
    [] c = "M" -> "m"
    [] c = "P" -> "p"
    [] c = "S" -> "s"
    [] OTHER -> c

toLowerCase(s) == [i \in 1..Len(s) |-> toLowerCaseChar(s[i])]

RECURSIVE trimStart(_)
trimStart(s) ==
  IF s # <<>> /\ Head(s) = " " THEN trimStart(Tail(s)) ELSE s

RECURSIVE trimEnd(_)
trimEnd(s) ==
  IF s # <<>> /\ s[Len(s)] = " " THEN trimEnd(SubSeq(s, 1, Len(s) - 1)) ELSE s

\* String.prototype.trim
trim(s) == trimEnd(trimStart(s))

\* raw strings that reach the store: blank, two casings of one word (one of
\* them padded), and a second word
StrPool == { <<" ">>, <<"a">>, <<" ", "A">>, <<"b">> }

Buckets == {"goals", "facts", "questions", "options", "decisions", "next_steps", "risks"}

emptyState == [b \in Buckets |-> <<>>]
\* patchRet: called tells whether applyStatePatch was the last store operation
emptyRet   == [called |-> TRUE, added |-> <<>>, removed |-> <<>>]
NoRet      == [called |-> FALSE, added |-> <<>>, removed |-> <<>>]

----------------------------------------------------------------------------
\* applyStatePatch (app.js 621-647)

\* mutant of hasCi: compares without lower-casing
hasCi_CaseSensitive(arr, text) ==
  \E i \in 1..Len(arr) : trim(arr[i]) = trim(text)

\* mutant of hasCi: lower-cases the probe but not the stored entry
hasCi_OneSided(arr, text) ==
  \E i \in 1..Len(arr) : trim(arr[i]) = toLowerCase(trim(text))

hasCi(arr, text) ==
  \E i \in 1..Len(arr) : toLowerCase(trim(arr[i])) = toLowerCase(trim(text))

\* inner loop of the add branch: for (const raw of arr) ...
RECURSIVE addLoop(_, _, _)
addLoop(acc, bucket, arr) ==
  IF arr = <<>> THEN acc
  ELSE LET text == trim(Head(arr)) IN
       IF text = <<>> \/ hasCi(acc.state[bucket], text)
       THEN addLoop(acc, bucket, Tail(arr))
       ELSE addLoop([acc EXCEPT !.state[bucket] = Append(@, text),
                                !.added = Append(@, [bucket |-> bucket, text |-> text])],
                    bucket, Tail(arr))

\* s => s.trim().toLowerCase() !== text.toLowerCase()
RECURSIVE filterOut(_, _)
filterOut(arr, text) ==
  IF arr = <<>> THEN <<>>
  ELSE IF toLowerCase(trim(Head(arr))) # toLowerCase(text)
       THEN <<Head(arr)>> \o filterOut(Tail(arr), text)
       ELSE filterOut(Tail(arr), text)

\* inner loop of the remove branch
RECURSIVE removeLoop(_, _, _)
removeLoop(acc, bucket, arr) ==
  IF arr = <<>> THEN acc
  ELSE LET text == trim(Head(arr)) IN
       IF text = <<>> THEN removeLoop(acc, bucket, Tail(arr))
       ELSE LET after == filterOut(acc.state[bucket], text) IN
            IF Len(after) # Len(acc.state[bucket])
            THEN removeLoop([acc EXCEPT !.state[bucket] = after,
                                        !.removed = Append(@, [bucket |-> bucket, text |-> text])],
                            bucket, Tail(arr))
            ELSE removeLoop(acc, bucket, Tail(arr))

\* for (const bucket of Object.keys(patch.add)) ...; a patch part is a
\* sequence of <<bucket, array>> pairs in key order
RECURSIVE addBuckets(_, _)
addBuckets(acc, pairs) ==
  IF pairs = <<>> THEN acc
  ELSE addBuckets(addLoop(acc, Head(pairs)[1], Head(pairs)[2]), Tail(pairs))

RECURSIVE removeBuckets(_, _)
removeBuckets(acc, pairs) ==
  IF pairs = <<>> THEN acc
  ELSE removeBuckets(removeLoop(acc, Head(pairs)[1], Head(pairs)[2]), Tail(pairs))

\* body of applyStatePatch after the gate test: adds, then removes
patchBody(st, patch) ==
  removeBuckets(addBuckets([state |-> st, added |-> <<>>, removed |-> <<>>], patch.add),
                patch.remove)

\* mutant of applyStatePatch: the definition-gate test is missing
applyStatePatch_NoGate(st, patch) == patchBody(st, patch)

\* applyStatePatch called when stateRef.current is st; returns
\* [state, added, removed], state being the new stateRef.current
applyStatePatch(st, patch) ==
  IF gateOpenRef
  THEN [state |-> st, added |-> <<>>, removed |-> <<>>]
  ELSE patchBody(st, patch)

----------------------------------------------------------------------------
\* Proposal queue and decision grid (app.js 197-217, 373-442)

\* a proposal; an absent option / criterion is the empty string, as
\* (p.option||'') makes it; weight is in tenths and conf in hundredths, so
\* that values off the integers and off [0,1] can be told apart
mkProposal(type, option, criterion, weight, conf, source) ==
  [type |-> type, option |-> option, criterion |-> criterion,
   weight |-> weight, conf |-> conf, anchors |-> <<>>, source |-> source]

emptyGrid == [options |-> {}, criteria |-> {}, cells |-> <<>>]

\* `${trim lower o}|${trim lower c}`, kept as a pair
kCell(o, c) == <<toLowerCase(trim(o)), toLowerCase(trim(c))>>

\* mutant of pKey: the key keeps the casing
pKey_CaseSensitive(p) == <<p.type, p.option, p.criterion>>

\* [type, lower(option), lower(criterion)].join('|'), kept as a triple
pKey(p) == <<p.type, toLowerCase(p.option), toLowerCase(p.criterion)>>

\* the "already accepted" tests at the head of the loop body
inAcceptedModel(grid, p) ==
  \/ p.type = "add_option"    /\ toLowerCase(trim(p.option)) \in grid.options
  \/ p.type = "add_criterion" /\ toLowerCase(trim(p.criterion)) \in grid.criteria
  \/ p.type = "set_cell"      /\ kCell(p.option, p.criterion) \in DOMAIN grid.cells

\* enqueueProposals(list) on queue q with grid; returns the new queue
RECURSIVE enqueueProposals(_, _, _)
enqueueProposals(q, grid, list) ==
  IF list = <<>> THEN q
  ELSE LET p == Head(list) IN
       IF inAcceptedModel(grid, p) \/ (\E i \in 1..Len(q) : pKey(q[i]) = pKey(p))
       THEN enqueueProposals(q, grid, Tail(list))
       ELSE enqueueProposals(Append(q, p), grid, Tail(list))

removeAt(q, idx) == SubSeq(q, 1, idx - 1) \o SubSeq(q, idx + 1, Len(q))

clamp(lo, hi, x) == IF x < lo THEN lo ELSE IF x > hi THEN hi ELSE x

\* acceptProposal(id), id being the proposal at position idx of the queue;
\* returns the new [state, grid, queue]
acceptProposal(st, grid, q, idx) ==
  LET p == q[idx]
      \* p.weight|0 on a weight in tenths: the fraction is cut off, towards zero
      int(w) == IF w >= 0 THEN w \div 10 ELSE -((-w) \div 10)
      opt == trim(p.option)
      st2 == IF p.type = "add_option" /\ opt # <<>>
                /\ ~(\E i \in 1..Len(st["options"]) :
                        toLowerCase(trim(st["options"][i])) = toLowerCase(opt))
             THEN [st EXCEPT !["options"] = Append(@, opt)]
             ELSE st
      grid2 ==
        CASE p.type = "add_option" ->
               [grid EXCEPT !.options = @ \cup {p.option}]
          [] p.type = "add_criterion" ->
               [grid EXCEPT !.criteria = @ \cup {p.criterion}]
          [] p.type = "set_cell" ->
               [options  |-> grid.options \cup (IF p.option # <<>> THEN {p.option} ELSE {}),
                criteria |-> grid.criteria \cup (IF p.criterion # <<>> THEN {p.criterion} ELSE {}),
                cells    |-> (kCell(p.option, p.criterion) :>
                                 [weight |-> int(p.weight), conf |-> clamp(0, 100, p.conf),
                                  anchors |-> IF Len(p.anchors) > 2 THEN SubSeq(p.anchors, 1, 2)
                                              ELSE p.anchors])
                              @@ grid.cells]
          [] OTHER -> grid
  IN [state |-> st2, grid |-> grid2, queue |-> removeAt(q, idx)]

\* discardProposal(id)
discardProposal(q, idx) == removeAt(q, idx)

----------------------------------------------------------------------------
\* Turn coordinator (app.js 444-484, 527-609, 752-1128, 1211-1381)
\*
\* Time is kept by what the code compares: heldLong is
\* Date.now() - pttStartAtRef >= MIN_PTT_MS and windowOpen is
\* Date.now() <= commitWindowUntilRef.  The handlers are projected on the
\* coordinator: their calls into the store and the enrichment gateway are
\* recorded in fx.did, the store itself is exercised by StateSpec.
\* An async handler is one action up to each await and one action for what
\* follows it.  replyInFlightRef, lastReplyAtRef and performingSpeakRef are
\* left out: the first two are read only by sendVoiceReply, which nothing
\* calls, the third only by a test of handleServerEvent that cannot
\* succeed (see responseCreated).

\* a null response id
NoRid == 0

\* responses the provider starts in one run; their ids are 1..MaxResp
MaxResp == 1
\* handler continuations that may wait at an await at the same time
MaxPending == 1
\* response.create messages counted as unanswered; owed = MaxOwed stands
\* for MaxOwed or more
MaxOwed == 2
\* messages queued in the outbox while the channel is not open
MaxOutbox == 1

msg(type, audio, rid) == [type |-> type, audio |-> audio, rid |-> rid]
SessionUpdate   == msg("session.update", FALSE, NoRid)
CreateAudio     == msg("response.create", TRUE, NoRid)
CreateText      == msg("response.create", FALSE, NoRid)
ItemCreate      == msg("conversation.item.create", FALSE, NoRid)
BufferClear     == msg("input_audio_buffer.clear", FALSE, NoRid)
BufferCommit    == msg("input_audio_buffer.commit", FALSE, NoRid)
Cancel(rid)     == msg("response.cancel", FALSE, rid)

\* what the last step did: the messages it passed to safeSend and the
\* calls, log lines and early returns it made
effect(out, did) == [out |-> out, did |-> did]

RECURSIVE countCreates(_)
countCreates(ms) ==
  IF ms = <<>> THEN 0
  ELSE (IF Head(ms).type = "response.create" THEN 1 ELSE 0) + countCreates(Tail(ms))

\* the utterances a transcription-completed event carries, as word lists:
\* silence, a short affirmative, a confirmation phrase
Utterances == { <<>>, <<"yes">>, <<"please", "go", "ahead">> }

\* the phrases of isVoiceConfirmation's pattern
ConfirmPhrases ==
  { <<"go", "ahead">>, <<"please", "proceed">>, <<"proceed">>, <<"you", "can", "speak">>,
    <<"read", "it">>, <<"say", "it">>, <<"continue">>, <<"please", "continue">>,
    <<"ok", "speak">>, <<"okay", "speak">>, <<"go", "for", "it">>, <<"sounds", "good">>,
    <<"that", "works">> }

\* /\b(go ahead|...)\b/.test(text): some phrase occurs as consecutive words
isVoiceConfirmation(text) ==
  \E ph \in ConfirmPhrases : \E i \in 1..Len(text) :
    /\ i + Len(ph) - 1 <= Len(text)
    /\ SubSeq(text, i, i + Len(ph) - 1) = ph

\* safeSend for a list of messages: with the channel open they go out, else
\* they are appended to the outbox
min(a, b) == IF a < b THEN a ELSE b
outboxAfter(ms) == IF connRef = "open" THEN outboxRef ELSE outboxRef \o ms
owedAfter(ms) ==
  IF connRef = "open" THEN min(owed + countCreates(ms), MaxOwed) ELSE owed
canSend(ms) == connRef = "open" \/ Len(outboxRef) + Len(ms) <= MaxOutbox

\* queueVoiceReply(): the new <<pendingSpeakRef, speakGateRef, confirm
\* button enabled>> when called with the values ps, sg, btn
queueVoiceReply(ps, sg, btn) ==
  IF gateOpenRef THEN <<ps, sg, btn>>
  ELSE IF respPendingRef \/ currentResponseIdRef # NoRid THEN <<ps, sg, btn>>
  ELSE <<TRUE, TRUE, TRUE>>

\* handler continuations waiting at an await
waiting == typedPending + Len(voicePending) + finalizePending

TurnInit ==
  /\ connRef = "none"
  /\ outboxRef = <<>>
  /\ pttActiveRef = FALSE
  /\ heldLong = FALSE
  /\ manualCommitRef = FALSE
  /\ windowOpen = FALSE
  /\ turnCommittedRef = FALSE
  /\ expectResponseRef = FALSE
  /\ currentResponseIdRef = NoRid
  /\ respPendingRef = FALSE
  /\ speakGateRef = TRUE
  /\ pendingSpeakRef = FALSE
  /\ confirmEnabled = FALSE
  /\ unmuteWhenClearedRef = FALSE
  /\ muted = FALSE
  /\ assistantSpeakingRef = FALSE
  /\ speakPolicyRef = "confirm"
  /\ tailPending = FALSE
  /\ typedPending = 0
  /\ voicePending = <<>>
  /\ finalizePending = 0
  /\ owed = 0
  /\ provRid = NoRid
  /\ provPhase = "none"
  /\ provSol = FALSE
  /\ finRuns = 0
  /\ awaitingClear = FALSE
  /\ fx = effect(<<>>, {})

\* reconcile: pc is "off" | "start" | "await" | "returned" | "done";
\* before is stateRef.current at entry, cur the value the remove patch was
\* computed against, want the wantState used, rmPatch the remove patch
ReconcileNone ==
  [pc |-> "off", mode |-> "final", lastUserText |-> <<>>, answer |-> emptyState, failed |-> FALSE,
   before |-> emptyState, cur |-> emptyState, want |-> emptyState, rmPatch |-> <<>>]

NoCall == "none"

ProposeNone == [pc |-> "off", body |-> <<>>, provider |-> <<>>, proposals |-> <<>>]

\* manual commits told apart in one run of CommitSpec; their ids are 1..MaxCommits
MaxCommits == 2

CommitsNone == [on |-> FALSE, made |-> 0, owed |-> {}, of |-> 0]

\* mic.attached: the sender of the connection carries the microphone track
\* (micSenderRef.current.replaceTrack); mic.speech: local speech recognition
\* runs (srRef.current); both are kept while mic.on
MicNone == [on |-> FALSE, attached |-> FALSE, speech |-> FALSE]

\* mic with the track attached or not and recognition running or not
micAfter(attached, speech) ==
  IF mic.on THEN [mic EXCEPT !.attached = attached, !.speech = speech] ELSE mic

\* the voice engine of the two-engine client (part_001 131-134) with its
\* provider: voiceRid 0 is null; toServer counts response.create messages
\* under way, active is the provider's response in progress (0: none), inbox
\* the events under way to the client; errors counts the provider's errors,
\* erred says that the client has handled one, want that a reply asked for
\* at speech_stopped has not been sent yet
VoiceNone ==
  [conn |-> FALSE, voiceRid |-> 0, busy |-> FALSE, pending |-> FALSE, toServer |-> 0,
   active |-> 0, inbox |-> <<>>, errors |-> 0, erred |-> FALSE, want |-> FALSE]

\* the three enrichment calls of the last turn, followed only under
\* HelperSpec: failed is the set of calls that threw, list the proposals in
\* the answer of /propose, summary is the number of the summary that summaryRef holds
\* (0: none); tick alternates with each turn
HelpersNone ==
  [on |-> FALSE, tick |-> FALSE, failed |-> {}, list |-> <<>>, summary |-> 0]

\* the variables of the focused specifications, at rest
FocusOff ==
  /\ reconcile = ReconcileNone
  /\ lastEnqueue = [offered |-> 0, queued |-> 0]
  /\ channel = [calls |-> 0, sent |-> <<>>]
  /\ toolCall = NoCall
  /\ propose = ProposeNone
  /\ commits = CommitsNone
  /\ mic = MicNone
  /\ voice = VoiceNone
  /\ helpers = HelpersNone

----------------------------------------------------------------------------
\* User input and timers

\* onKeyDown for SPACE outside an input field
onKeyDown ==
  /\ ~assistantSpeakingRef
  /\ ~pttActiveRef
  /\ canSend(<<BufferClear>>)
  /\ pttActiveRef' = TRUE
  /\ heldLong' = FALSE
  /\ manualCommitRef' = FALSE
  /\ muted' = TRUE
  /\ outboxRef' = outboxAfter(<<BufferClear>>)
  /\ fx' = effect(<<BufferClear>>, {})
  /\ mic' = micAfter(IF connRef # "none" THEN TRUE ELSE mic.attached, TRUE)
  /\ UNCHANGED <<stateRef, gateOpenRef, proposalsRef, gridMDRef, patchRet, idemPatch,
                  idemPc, idemOnce, connRef, windowOpen, turnCommittedRef,
                  expectResponseRef, currentResponseIdRef, respPendingRef, speakGateRef,
                  pendingSpeakRef, confirmEnabled, unmuteWhenClearedRef,
                  assistantSpeakingRef, speakPolicyRef, tailPending, typedPending,
                  voicePending, finalizePending, owed, provRid, provPhase, provSol, finRuns,
                  awaitingClear,
                  reconcile, lastEnqueue, channel, toolCall, propose, commits, voice, helpers>>

\* MIN_PTT_MS pass while the key is held; the 150 ms tail of an earlier
\* release has run by then
HoldElapses ==
  /\ pttActiveRef
  /\ ~heldLong
  /\ ~tailPending
  /\ heldLong' = TRUE
  /\ fx' = effect(<<>>, {})
  /\ UNCHANGED <<stateRef, gateOpenRef, proposalsRef, gridMDRef, patchRet, idemPatch,
                  idemPc, idemOnce, connRef, outboxRef, pttActiveRef, manualCommitRef,
                  windowOpen, turnCommittedRef, expectResponseRef, currentResponseIdRef,
                  respPendingRef, speakGateRef, pendingSpeakRef, confirmEnabled,
                  unmuteWhenClearedRef, muted, assistantSpeakingRef, speakPolicyRef,
                  tailPending, typedPending, voicePending, finalizePending, owed, provRid,
                  provPhase, provSol, finRuns, awaitingClear,
                  focusVars>>

\* mutant of heldTooShort: no hold counts as too short
heldTooShort_Never == FALSE

\* Date.now() - pttStartAtRef.current < MIN_PTT_MS
heldTooShort == ~heldLong

\* onKeyUp before MIN_PTT_MS: the tap is ignored
onKeyUpShort ==
  /\ pttActiveRef
  /\ heldTooShort
  /\ pttActiveRef' = FALSE
  /\ muted' = FALSE
  /\ fx' = effect(<<>>, {"onKeyUp: tap ignored"})
  /\ UNCHANGED <<stateRef, gateOpenRef, proposalsRef, gridMDRef, patchRet, idemPatch,
                  idemPc, idemOnce, connRef, outboxRef, heldLong, manualCommitRef,
                  windowOpen, turnCommittedRef, expectResponseRef, currentResponseIdRef,
                  respPendingRef, speakGateRef, pendingSpeakRef, confirmEnabled,
                  unmuteWhenClearedRef, assistantSpeakingRef, speakPolicyRef, tailPending,
                  typedPending, voicePending, finalizePending, owed, provRid, provPhase,
                  provSol, finRuns, awaitingClear,
                  focusVars>>

\* onKeyUp after MIN_PTT_MS, up to the 150 ms wait
onKeyUpCommit ==
  /\ pttActiveRef
  /\ ~heldTooShort
  /\ canSend(<<BufferCommit>>)
  /\ commits.on => commits.made < MaxCommits
  /\ pttActiveRef' = FALSE
  /\ manualCommitRef' = TRUE
  /\ windowOpen' = TRUE
  /\ outboxRef' = outboxAfter(<<BufferCommit>>)
  /\ tailPending' = TRUE
  /\ fx' = effect(<<BufferCommit>>, {})
  /\ commits' = IF commits.on
                 THEN [commits EXCEPT !.made = @ + 1, !.owed = @ \cup {commits.made + 1}]
                 ELSE commits
  /\ mic' = micAfter(mic.attached, FALSE)
  /\ UNCHANGED <<stateRef, gateOpenRef, proposalsRef, gridMDRef, patchRet, idemPatch,
                  idemPc, idemOnce, connRef, heldLong, turnCommittedRef, expectResponseRef,
                  currentResponseIdRef, respPendingRef, speakGateRef, pendingSpeakRef,
                  confirmEnabled, unmuteWhenClearedRef, muted, assistantSpeakingRef,
                  speakPolicyRef, typedPending, voicePending, finalizePending, owed,
                  provRid, provPhase, provSol, finRuns, awaitingClear,
                  reconcile, lastEnqueue, channel, toolCall, propose, voice, helpers>>

\* the rest of onKeyUp, 150 ms after the commit
onKeyUpTail ==
  /\ tailPending
  /\ tailPending' = FALSE
  /\ muted' = IF ~unmuteWhenClearedRef THEN FALSE ELSE muted
  /\ LET q == IF ~gateOpenRef /\ ~pendingSpeakRef
              THEN queueVoiceReply(pendingSpeakRef, speakGateRef, confirmEnabled)
              ELSE <<pendingSpeakRef, speakGateRef, confirmEnabled>> IN
     /\ pendingSpeakRef' = q[1]
     /\ speakGateRef' = q[2]
     /\ confirmEnabled' = q[3]
  /\ fx' = effect(<<>>, {})
  /\ mic' = micAfter(IF connRef # "none" THEN FALSE ELSE mic.attached, mic.speech)
  /\ UNCHANGED <<stateRef, gateOpenRef, proposalsRef, gridMDRef, patchRet, idemPatch,
                  idemPc, idemOnce, connRef, outboxRef, pttActiveRef, heldLong,
                  manualCommitRef, windowOpen, turnCommittedRef, expectResponseRef,
                  currentResponseIdRef, respPendingRef, unmuteWhenClearedRef,
                  assistantSpeakingRef, speakPolicyRef, typedPending, voicePending,
                  finalizePending, owed, provRid, provPhase, provSol, finRuns, awaitingClear,
                  reconcile, lastEnqueue, channel, toolCall, propose, commits, voice, helpers>>

\* COMMIT_WINDOW_MS pass after the commit (long after the 150 ms tail)
WindowElapses ==
  /\ windowOpen
  /\ ~tailPending
  /\ windowOpen' = FALSE
  /\ fx' = effect(<<>>, {})
  /\ UNCHANGED <<stateRef, gateOpenRef, proposalsRef, gridMDRef, patchRet, idemPatch,
                  idemPc, idemOnce, connRef, outboxRef, pttActiveRef, heldLong,
                  manualCommitRef, turnCommittedRef, expectResponseRef,
                  currentResponseIdRef, respPendingRef, speakGateRef, pendingSpeakRef,
                  confirmEnabled, unmuteWhenClearedRef, muted, assistantSpeakingRef,
                  speakPolicyRef, tailPending, typedPending, voicePending, finalizePending,
                  owed, provRid, provPhase, provSol, finRuns, awaitingClear,
                  focusVars>>

\* the policies the select is switched between (its third, "text", sends
\* what "confirm" sends and stages nothing)
Policies == {"confirm", "auto"}

\* the speak-policy select changes
onPolicyChange ==
  \E p \in Policies :
    /\ p # speakPolicyRef
    /\ speakPolicyRef' = p
    /\ fx' = effect(<<>>, {})
    /\ UNCHANGED <<stateRef, gateOpenRef, proposalsRef, gridMDRef, patchRet, idemPatch,
                    idemPc, idemOnce, connRef, outboxRef, pttActiveRef, heldLong,
                    manualCommitRef, windowOpen, turnCommittedRef, expectResponseRef,
                    currentResponseIdRef, respPendingRef, speakGateRef, pendingSpeakRef,
                    confirmEnabled, unmuteWhenClearedRef, muted, assistantSpeakingRef,
                    tailPending, typedPending, voicePending, finalizePending, owed, provRid,
                    provPhase, provSol, finRuns, awaitingClear,
                  focusVars>>

\* click on the confirm button (a disabled button takes no click), which
\* runs performSpeak when a reply is staged and the gate is armed
onConfirmClick ==
  /\ confirmEnabled
  /\ pendingSpeakRef /\ speakGateRef
  /\ canSend(<<CreateAudio>>)
  /\ expectResponseRef' = TRUE
  /\ speakGateRef' = FALSE
  /\ confirmEnabled' = FALSE
  /\ outboxRef' = outboxAfter(<<CreateAudio>>)
  /\ owed' = owedAfter(<<CreateAudio>>)
  /\ fx' = effect(<<CreateAudio>>, {"performSpeak"})
  /\ UNCHANGED <<stateRef, gateOpenRef, proposalsRef, gridMDRef, patchRet, idemPatch,
                  idemPc, idemOnce, connRef, pttActiveRef, heldLong, manualCommitRef,
                  windowOpen, turnCommittedRef, currentResponseIdRef, respPendingRef,
                  pendingSpeakRef, unmuteWhenClearedRef, muted, assistantSpeakingRef,
                  speakPolicyRef, tailPending, typedPending, voicePending, finalizePending,
                  provRid, provPhase, provSol, finRuns, awaitingClear,
                  focusVars>>

\* onUserTextSend up to the await of the three enrichment calls
onUserTextSend ==
  /\ waiting < MaxPending
  /\ typedPending' = typedPending + 1
  /\ fx' = effect(<<>>, {"addMessage(user, typed)", "postJSON"})
  /\ UNCHANGED <<stateRef, gateOpenRef, proposalsRef, gridMDRef, patchRet, idemPatch,
                  idemPc, idemOnce, connRef, outboxRef, pttActiveRef, heldLong,
                  manualCommitRef, windowOpen, turnCommittedRef, expectResponseRef,
                  currentResponseIdRef, respPendingRef, speakGateRef, pendingSpeakRef,
                  confirmEnabled, unmuteWhenClearedRef, muted, assistantSpeakingRef,
                  speakPolicyRef, tailPending, voicePending, finalizePending, owed, provRid,
                  provPhase, provSol, finRuns, awaitingClear,
                  focusVars>>

\* what the code after Promise.all applies: nothing if a call failed
helperEffects(ok) == IF ok THEN {"applyStatePatch", "enqueueProposals"} ELSE {}

\* the rest of onUserTextSend, once the three calls have settled
onUserTextSendResume ==
  \E ok \in BOOLEAN :
    LET create == IF speakPolicyRef = "auto" THEN CreateAudio ELSE CreateText
        out == <<ItemCreate, create>> IN
    /\ typedPending > 0
    /\ canSend(out)
    /\ typedPending' = typedPending - 1
    /\ expectResponseRef' = TRUE
    /\ outboxRef' = outboxAfter(out)
    /\ owed' = owedAfter(out)
    /\ fx' = effect(out, helperEffects(ok))
    /\ UNCHANGED <<stateRef, gateOpenRef, proposalsRef, gridMDRef, patchRet, idemPatch,
                    idemPc, idemOnce, connRef, pttActiveRef, heldLong, manualCommitRef,
                    windowOpen, turnCommittedRef, currentResponseIdRef, respPendingRef,
                    speakGateRef, pendingSpeakRef, confirmEnabled, unmuteWhenClearedRef,
                    muted, assistantSpeakingRef, speakPolicyRef, tailPending, voicePending,
                    finalizePending, provRid, provPhase, provSol, finRuns, awaitingClear,
                  focusVars>>

----------------------------------------------------------------------------
\* Connection

\* onConnect up to the point where the data channel is not yet open
onConnect ==
  /\ connRef = "none"
  /\ connRef' = "connecting"
  /\ fx' = effect(<<>>, {})
  /\ mic' = micAfter(FALSE, mic.speech)
  /\ UNCHANGED <<stateRef, gateOpenRef, proposalsRef, gridMDRef, patchRet, idemPatch,
                  idemPc, idemOnce, outboxRef, pttActiveRef, heldLong, manualCommitRef,
                  windowOpen, turnCommittedRef, expectResponseRef, currentResponseIdRef,
                  respPendingRef, speakGateRef, pendingSpeakRef, confirmEnabled,
                  unmuteWhenClearedRef, muted, assistantSpeakingRef, speakPolicyRef,
                  tailPending, typedPending, voicePending, finalizePending, owed, provRid,
                  provPhase, provSol, finRuns, awaitingClear,
                  reconcile, lastEnqueue, channel, toolCall, propose, commits, voice, helpers>>

\* arm(), run when the data channel opens: session.update and the greeter go
\* out on the open channel, then flushOutbox sends what was queued before.
\* onConnect.didConfig belongs to the function object of one render, so
\* each connect arms.
arm ==
  /\ connRef = "connecting"
  /\ connRef' = "open"
  /\ muted' = FALSE
  /\ gateOpenRef' = TRUE
  /\ turnCommittedRef' = TRUE
  /\ expectResponseRef' = TRUE
  /\ speakGateRef' = FALSE
  /\ outboxRef' = <<>>
  /\ owed' = min(1 + countCreates(outboxRef), MaxOwed)
  /\ fx' = effect(<<SessionUpdate, CreateAudio>> \o outboxRef, {})
  /\ mic' = micAfter(FALSE, mic.speech)
  /\ UNCHANGED <<stateRef, proposalsRef, gridMDRef, patchRet, idemPatch, idemPc, idemOnce,
                  pttActiveRef, heldLong, manualCommitRef, windowOpen, currentResponseIdRef,
                  respPendingRef, pendingSpeakRef, confirmEnabled, unmuteWhenClearedRef,
                  assistantSpeakingRef, speakPolicyRef, tailPending, typedPending,
                  voicePending, finalizePending, provRid, provPhase, provSol, finRuns,
                  awaitingClear,
                  reconcile, lastEnqueue, channel, toolCall, propose, commits, voice, helpers>>

onDisconnect ==
  /\ connRef # "none"
  /\ connRef' = "none"
  /\ outboxRef' = <<>>
  /\ assistantSpeakingRef' = FALSE
  /\ unmuteWhenClearedRef' = FALSE
  /\ muted' = FALSE
  /\ speakGateRef' = TRUE
  /\ pendingSpeakRef' = FALSE
  /\ confirmEnabled' = FALSE
  /\ owed' = 0
  /\ provPhase' = "none"
  /\ awaitingClear' = FALSE
  /\ fx' = effect(<<>>, {"onDisconnect"})
  /\ mic' = micAfter(mic.attached, FALSE)
  /\ UNCHANGED <<stateRef, gateOpenRef, proposalsRef, gridMDRef, patchRet, idemPatch,
                  idemPc, idemOnce, pttActiveRef, heldLong, manualCommitRef, windowOpen,
                  turnCommittedRef, expectResponseRef, currentResponseIdRef, respPendingRef,
                  speakPolicyRef, tailPending, typedPending, voicePending, finalizePending,
                  provRid, provSol, finRuns,
                  reconcile, lastEnqueue, channel, toolCall, propose, commits, voice, helpers>>

----------------------------------------------------------------------------
\* finalizeTurn

\* finalizeTurn() up to its first await, as the new values of
\* <<assistantSpeakingRef, speakGateRef>>
finalizeTurnSync == <<FALSE, TRUE>>

\* the rest of finalizeTurn, after reconcile and the summary refresh
finalizeTurnResume ==
  /\ finalizePending > 0
  /\ finalizePending' = finalizePending - 1
  /\ LET q == IF ~gateOpenRef /\ speakPolicyRef = "confirm"
              THEN queueVoiceReply(FALSE, speakGateRef, confirmEnabled)
              ELSE <<FALSE, speakGateRef, confirmEnabled>> IN
     /\ pendingSpeakRef' = q[1]
     /\ speakGateRef' = q[2]
     /\ confirmEnabled' = q[3]
  /\ fx' = effect(<<>>, {"refreshFinalSummary"})
  /\ UNCHANGED <<stateRef, gateOpenRef, proposalsRef, gridMDRef, patchRet, idemPatch,
                  idemPc, idemOnce, connRef, outboxRef, pttActiveRef, heldLong,
                  manualCommitRef, windowOpen, turnCommittedRef, expectResponseRef,
                  currentResponseIdRef, respPendingRef, unmuteWhenClearedRef, muted,
                  assistantSpeakingRef, speakPolicyRef, tailPending, typedPending,
                  voicePending, owed, provRid, provPhase, provSol, finRuns, awaitingClear,
                  focusVars>>

----------------------------------------------------------------------------
\* handleServerEvent.  The provider runs one response at a time; a response
\* it starts either answers the oldest response.create it was sent or is its
\* own (voice-activity) response.

\* case 'response.created' for a response with an id up to last.  Its third
\* test (line 934) repeats
\* !expectResponseRef.current, which the first test has found false.
responseCreatedUpTo(last) ==
  \E sol \in BOOLEAN :
    LET rid == provRid + 1 IN
    /\ connRef = "open"
    /\ provPhase # "active"
    /\ provRid < last
    /\ sol => owed > 0
    /\ owed' \in (IF ~sol THEN {owed}
                 ELSE IF owed = MaxOwed THEN {MaxOwed - 1, MaxOwed} ELSE {owed - 1})
    /\ provRid' = rid
    /\ provPhase' = "active"
    /\ provSol' = sol
    /\ IF ~expectResponseRef
       THEN /\ fx' = effect(<<Cancel(rid)>>, {})
            /\ awaitingClear' = TRUE
            /\ UNCHANGED <<muted, unmuteWhenClearedRef, currentResponseIdRef, respPendingRef,
                           expectResponseRef, finRuns>>
       ELSE IF pttActiveRef \/ ~turnCommittedRef
       THEN /\ muted' = TRUE
            /\ unmuteWhenClearedRef' = TRUE
            /\ fx' = effect(<<Cancel(rid)>>, {})
            /\ awaitingClear' = TRUE
            /\ UNCHANGED <<currentResponseIdRef, respPendingRef, expectResponseRef, finRuns>>
       ELSE IF ~gateOpenRef /\ speakGateRef /\ ~expectResponseRef
       THEN /\ fx' = effect(<<Cancel(rid)>>, {})
            /\ awaitingClear' = TRUE
            /\ UNCHANGED <<muted, unmuteWhenClearedRef, currentResponseIdRef, respPendingRef,
                           expectResponseRef, finRuns>>
       ELSE /\ currentResponseIdRef' = rid
            /\ respPendingRef' = TRUE
            /\ expectResponseRef' = FALSE
            /\ finRuns' = 0
            /\ fx' = effect(<<>>, {"track"})
            /\ UNCHANGED <<muted, unmuteWhenClearedRef, awaitingClear>>
    /\ UNCHANGED <<stateRef, gateOpenRef, proposalsRef, gridMDRef, patchRet, idemPatch,
                    idemPc, idemOnce, connRef, outboxRef, pttActiveRef, heldLong,
                    manualCommitRef, windowOpen, turnCommittedRef, speakGateRef,
                    pendingSpeakRef, confirmEnabled, assistantSpeakingRef, speakPolicyRef,
                    tailPending, typedPending, voicePending, finalizePending,
                  focusVars>>

\* case 'response.created' for one of the first MaxResp responses of the run
responseCreated == responseCreatedUpTo(MaxResp)


\* the response of this session whose done-style events arrive, once or
\* repeatedly: the latest the provider started
SessionRids == IF provPhase = "none" THEN {} ELSE {provRid}

\* case 'response.text.done' / 'response.output_text.done' / 'response.completed'
responseTextDone ==
  \E rid \in SessionRids :
    /\ connRef = "open"
    /\ IF rid # currentResponseIdRef
       THEN /\ fx' = effect(<<>>, {"response.text.done"})
            /\ UNCHANGED <<respPendingRef, currentResponseIdRef, assistantSpeakingRef,
                           speakGateRef, finalizePending, finRuns>>
       ELSE IF respPendingRef
       THEN /\ waiting < MaxPending
            /\ respPendingRef' = FALSE
            /\ currentResponseIdRef' = NoRid
            /\ assistantSpeakingRef' = finalizeTurnSync[1]
            /\ speakGateRef' = finalizeTurnSync[2]
            /\ finalizePending' = finalizePending + 1
            /\ finRuns' = finRuns + 1
            /\ fx' = effect(<<>>, {"response.text.done", "finalizeTurn"})
       ELSE /\ fx' = effect(<<>>, {"response.text.done"})
            /\ UNCHANGED <<respPendingRef, currentResponseIdRef, assistantSpeakingRef,
                           speakGateRef, finalizePending, finRuns>>
    /\ UNCHANGED <<stateRef, gateOpenRef, proposalsRef, gridMDRef, patchRet, idemPatch,
                    idemPc, idemOnce, connRef, outboxRef, pttActiveRef, heldLong,
                    manualCommitRef, windowOpen, turnCommittedRef, expectResponseRef,
                    pendingSpeakRef, confirmEnabled, unmuteWhenClearedRef, muted,
                    speakPolicyRef, tailPending, typedPending, voicePending, owed, provRid,
                    provPhase, provSol, awaitingClear,
                  focusVars>>

\* mutant of responseDoneProceeds: the pending test is missing
responseDoneProceeds_NoPending(rid) ==
  ~(currentResponseIdRef # NoRid /\ rid # NoRid /\ rid # currentResponseIdRef)

\* case 'response.done' gets past its two early breaks
responseDoneProceeds(rid) ==
  /\ respPendingRef
  /\ ~(currentResponseIdRef # NoRid /\ rid # NoRid /\ rid # currentResponseIdRef)

\* case 'response.done' for the provider's response of; the event names it
\* in response_id or id (named) or only inside ev.response (rid is null)
responseDone ==
  \E of \in SessionRids, named \in BOOLEAN :
    LET rid == IF named THEN of ELSE NoRid IN
    /\ connRef = "open"
    /\ provPhase' = IF of = provRid THEN "idle" ELSE provPhase
    /\ IF responseDoneProceeds(rid)
       THEN /\ waiting < MaxPending
            /\ respPendingRef' = FALSE
            /\ currentResponseIdRef' = NoRid
            /\ IF unmuteWhenClearedRef /\ ~pttActiveRef
               THEN muted' = FALSE /\ unmuteWhenClearedRef' = FALSE
               ELSE UNCHANGED <<muted, unmuteWhenClearedRef>>
            /\ assistantSpeakingRef' = finalizeTurnSync[1]
            /\ speakGateRef' = finalizeTurnSync[2]
            /\ finalizePending' = finalizePending + 1
            /\ finRuns' = finRuns + 1
            /\ fx' = effect(<<>>, {"response.done", "finalizeTurn"})
       ELSE /\ fx' = effect(<<>>, {"response.done"})
            /\ UNCHANGED <<respPendingRef, currentResponseIdRef, muted, unmuteWhenClearedRef,
                           assistantSpeakingRef, speakGateRef,
                           finalizePending, finRuns>>
    /\ UNCHANGED <<stateRef, gateOpenRef, proposalsRef, gridMDRef, patchRet, idemPatch,
                    idemPc, idemOnce, connRef, outboxRef, pttActiveRef, heldLong,
                    manualCommitRef, windowOpen, turnCommittedRef, expectResponseRef,
                    pendingSpeakRef, confirmEnabled, speakPolicyRef, tailPending,
                    typedPending, voicePending, owed, provRid, provSol, awaitingClear,
                  focusVars>>

\* mutant of inWindow: the clock is not compared
inWindow_Always == TRUE

\* Date.now() <= (commitWindowUntilRef.current || 0)
inWindow == windowOpen

\* the acceptance test of the transcription-completed case
transcriptAccepted == ~(pttActiveRef \/ ~manualCommitRef \/ ~inWindow)

\* case 'conversation.item.input_audio_transcription.completed' up to its
\* first await.  While commits.on the event carries the transcript of a
\* manual commit that has none yet.
transcriptionCompleted ==
  \E text \in Utterances, of \in (IF commits.on THEN commits.owed ELSE {0}) :
    /\ connRef = "open"
    /\ commits' = IF commits.on THEN [commits EXCEPT !.owed = @ \ {of}, !.of = of]
                   ELSE commits
    /\ IF text = <<>> \/ ~transcriptAccepted
       THEN /\ fx' = effect(<<>>, IF text = <<>> THEN {} ELSE {"log: ignoring transcript"})
            /\ UNCHANGED <<manualCommitRef, windowOpen, turnCommittedRef, voicePending>>
       ELSE /\ waiting < MaxPending
            /\ manualCommitRef' = FALSE
            /\ windowOpen' = FALSE
            /\ turnCommittedRef' = FALSE
            /\ voicePending' = Append(voicePending, text)
            /\ fx' = effect(<<>>, {"addMessage(user, transcript)"})
    /\ UNCHANGED <<stateRef, gateOpenRef, proposalsRef, gridMDRef, patchRet, idemPatch,
                    idemPc, idemOnce, connRef, outboxRef, pttActiveRef, heldLong,
                    expectResponseRef, currentResponseIdRef, respPendingRef, speakGateRef,
                    pendingSpeakRef, confirmEnabled, unmuteWhenClearedRef, muted,
                    assistantSpeakingRef, speakPolicyRef, tailPending, typedPending,
                    finalizePending, owed, provRid, provPhase, provSol, finRuns,
                    awaitingClear,
                  reconcile, lastEnqueue, channel, toolCall, propose, mic, voice, helpers>>

\* the rest of the transcription-completed case: the frame wait, reconcile,
\* the three enrichment calls, then the reply request
transcriptionResume ==
  \E ok \in BOOLEAN :
    /\ voicePending # <<>>
    /\ LET text == Head(voicePending)
           create == IF isVoiceConfirmation(text) \/ speakPolicyRef = "auto"
                     THEN CreateAudio ELSE CreateText IN
       /\ canSend(<<create>>)
       /\ outboxRef' = outboxAfter(<<create>>)
       /\ owed' = owedAfter(<<create>>)
       /\ fx' = effect(<<create>>, {"addAndReconcileForUserTurn", "postJSON"}
                                    \cup helperEffects(ok))
    /\ voicePending' = Tail(voicePending)
    /\ expectResponseRef' = TRUE
    /\ pendingSpeakRef' = IF speakPolicyRef = "confirm" THEN TRUE ELSE pendingSpeakRef
    /\ confirmEnabled' = IF speakPolicyRef = "confirm" THEN TRUE ELSE confirmEnabled
    /\ UNCHANGED <<stateRef, gateOpenRef, proposalsRef, gridMDRef, patchRet, idemPatch,
                    idemPc, idemOnce, connRef, pttActiveRef, heldLong, manualCommitRef,
                    windowOpen, turnCommittedRef, currentResponseIdRef, respPendingRef,
                    speakGateRef, unmuteWhenClearedRef, muted, assistantSpeakingRef,
                    speakPolicyRef, tailPending, typedPending, finalizePending, provRid,
                    provPhase, provSol, finRuns, awaitingClear,
                  focusVars>>

\* case 'output_audio_buffer.cleared': the provider's answer to a cancel
outputAudioBufferCleared ==
  /\ connRef = "open"
  /\ awaitingClear
  /\ awaitingClear' = FALSE
  /\ IF unmuteWhenClearedRef /\ ~pttActiveRef
     THEN muted' = FALSE /\ unmuteWhenClearedRef' = FALSE
     ELSE UNCHANGED <<muted, unmuteWhenClearedRef>>
  /\ fx' = effect(<<>>, {})
  /\ UNCHANGED <<stateRef, gateOpenRef, proposalsRef, gridMDRef, patchRet, idemPatch,
                  idemPc, idemOnce, connRef, outboxRef, pttActiveRef, heldLong,
                  manualCommitRef, windowOpen, turnCommittedRef, expectResponseRef,
                  currentResponseIdRef, respPendingRef, speakGateRef, pendingSpeakRef,
                  confirmEnabled, assistantSpeakingRef, speakPolicyRef, tailPending,
                  typedPending, voicePending, finalizePending, owed, provRid, provPhase,
                  provSol, finRuns,
                  focusVars>>

\* case 'output_audio_buffer.started'
outputAudioBufferStarted ==
  /\ connRef = "open"
  /\ provPhase = "active"
  /\ assistantSpeakingRef' = TRUE
  /\ fx' = effect(<<>>, {})
  /\ mic' = micAfter(FALSE, mic.speech)
  /\ UNCHANGED <<stateRef, gateOpenRef, proposalsRef, gridMDRef, patchRet, idemPatch,
                  idemPc, idemOnce, connRef, outboxRef, pttActiveRef, heldLong,
                  manualCommitRef, windowOpen, turnCommittedRef, expectResponseRef,
                  currentResponseIdRef, respPendingRef, speakGateRef, pendingSpeakRef,
                  confirmEnabled, unmuteWhenClearedRef, muted, speakPolicyRef, tailPending,
                  typedPending, voicePending, finalizePending, owed, provRid, provPhase,
                  provSol, finRuns, awaitingClear,
                  reconcile, lastEnqueue, channel, toolCall, propose, commits, voice, helpers>>

\* case 'input_audio_buffer.speech_started'
speechStarted ==
  /\ connRef = "open"
  /\ turnCommittedRef
  /\ turnCommittedRef' = FALSE
  /\ fx' = effect(<<>>, {})
  /\ UNCHANGED <<stateRef, gateOpenRef, proposalsRef, gridMDRef, patchRet, idemPatch,
                  idemPc, idemOnce, connRef, outboxRef, pttActiveRef, heldLong,
                  manualCommitRef, windowOpen, expectResponseRef, currentResponseIdRef,
                  respPendingRef, speakGateRef, pendingSpeakRef, confirmEnabled,
                  unmuteWhenClearedRef, muted, assistantSpeakingRef, speakPolicyRef,
                  tailPending, typedPending, voicePending, finalizePending, owed, provRid,
                  provPhase, provSol, finRuns, awaitingClear,
                  focusVars>>

\* case 'input_audio_buffer.committed'
bufferCommitted ==
  /\ connRef = "open"
  /\ ~turnCommittedRef
  /\ turnCommittedRef' = TRUE
  /\ fx' = effect(<<>>, {})
  /\ UNCHANGED <<stateRef, gateOpenRef, proposalsRef, gridMDRef, patchRet, idemPatch,
                  idemPc, idemOnce, connRef, outboxRef, pttActiveRef, heldLong,
                  manualCommitRef, windowOpen, expectResponseRef, currentResponseIdRef,
                  respPendingRef, speakGateRef, pendingSpeakRef, confirmEnabled,
                  unmuteWhenClearedRef, muted, assistantSpeakingRef, speakPolicyRef,
                  tailPending, typedPending, voicePending, finalizePending, owed, provRid,
                  provPhase, provSol, finRuns, awaitingClear,
                  focusVars>>

ErrorCodes == {"input_audio_buffer_commit_empty"}

\* mutant of errorClearsCommit: no error code clears the marker
errorClearsCommit_Never(code) == FALSE

\* ev?.error?.code === 'input_audio_buffer_commit_empty'
errorClearsCommit(code) == code = "input_audio_buffer_commit_empty"

\* case 'error', the provider's answer to a commit
errorEvent ==
  \E code \in ErrorCodes :
    /\ connRef = "open"
    /\ manualCommitRef
    /\ manualCommitRef' = IF errorClearsCommit(code) THEN FALSE ELSE manualCommitRef
    /\ fx' = effect(<<>>, {"error"})
    /\ UNCHANGED <<stateRef, gateOpenRef, proposalsRef, gridMDRef, patchRet, idemPatch,
                    idemPc, idemOnce, connRef, outboxRef, pttActiveRef, heldLong,
                    windowOpen, turnCommittedRef, expectResponseRef, currentResponseIdRef,
                    respPendingRef, speakGateRef, pendingSpeakRef, confirmEnabled,
                    unmuteWhenClearedRef, muted, assistantSpeakingRef, speakPolicyRef,
                    tailPending, typedPending, voicePending, finalizePending, owed, provRid,
                    provPhase, provSol, finRuns, awaitingClear,
                  focusVars>>

\* the cases that change nothing: the tool-call events and unknown types
IgnoredTypes == {"response.function_call_arguments.done"}

ignoredEvent ==
  \E type \in IgnoredTypes :
    /\ connRef = "open"
    /\ fx' = effect(<<>>, {})
    /\ UNCHANGED <<stateRef, gateOpenRef, proposalsRef, gridMDRef, patchRet, idemPatch,
                    idemPc, idemOnce, connRef, outboxRef, pttActiveRef, heldLong,
                    manualCommitRef, windowOpen, turnCommittedRef, expectResponseRef,
                    currentResponseIdRef, respPendingRef, speakGateRef, pendingSpeakRef,
                    confirmEnabled, unmuteWhenClearedRef, muted, assistantSpeakingRef,
                    speakPolicyRef, tailPending, typedPending, voicePending,
                    finalizePending, owed, provRid, provPhase, provSol, finRuns,
                    awaitingClear,
                  focusVars>>


----------------------------------------------------------------------------
\* StateSpec: the store under arbitrary patch and proposal traffic

\* arrays of length 0..n over the strings of pool
RECURSIVE ArrsUpTo(_, _)
ArrsUpTo(pool, n) ==
  IF n = 0 THEN {<<>>}
  ELSE LET shorter == ArrsUpTo(pool, n - 1) IN
       shorter \cup {Append(a, s) : a \in {x \in shorter : Len(x) = n - 1}, s \in pool}

\* patches of applyStatePatch's callers.  Adds: arrays of up to MaxArr words
\* into facts (typed / voice turn extraction, local nudge, reconcile add) and
\* single strings, blank included, into options.  Removes (reconcile remove):
\* single strings from either bucket.  Add and remove in one patch.
StorePatches ==
  {[add |-> <<<<"facts", a>>>>, remove |-> <<>>] : a \in ArrsUpTo(StrPool \ {<<" ">>}, MaxArr)}
  \cup {[add |-> <<<<"options", <<s>>>>>>, remove |-> <<>>] : s \in StrPool}
  \cup {[add |-> <<>>, remove |-> <<<<b, <<s>>>>>>] : b \in {"facts", "options"}, s \in StrPool}
  \cup {[add |-> <<<<"facts", <<s>>>>>>, remove |-> <<<<"facts", <<t>>>>>>] :
          s \in {<<"a">>, <<"b">>}, t \in {<<" ", "A">>, <<"b">>}}

\* option names of add_option proposals (extractor / scout output, raw)
OptionPool == { <<"A">>, <<" ", "a">> }

StoreProposals ==
  {mkProposal("add_option", o, <<>>, 0, 0, "extractor") : o \in OptionPool}

StoreInit ==
  /\ stateRef = emptyState
  /\ gateOpenRef = FALSE
  /\ proposalsRef = <<>>
  /\ gridMDRef = emptyGrid
  /\ patchRet = NoRet

IdemOff ==
  /\ idemPatch = <<>>
  /\ idemPc = "off"
  /\ idemOnce = emptyState

\* some caller runs applyStatePatch(patch)
CallApplyStatePatch ==
  \E patch \in StorePatches :
    LET r == applyStatePatch(stateRef, patch) IN
    /\ stateRef' = r.state
    /\ patchRet' = [called |-> TRUE, added |-> r.added, removed |-> r.removed]
    /\ UNCHANGED <<gateOpenRef, proposalsRef, gridMDRef>>
    /\ UNCHANGED <<idemVars, turnVars, focusVars>>

CallEnqueueProposals ==
  \E p \in StoreProposals :
    LET q == enqueueProposals(proposalsRef, gridMDRef, <<p>>) IN
    /\ Len(q) <= MaxQueue
    /\ proposalsRef' = q
    /\ patchRet' = NoRet
    /\ UNCHANGED <<stateRef, gateOpenRef, gridMDRef>>
    /\ UNCHANGED <<idemVars, turnVars, focusVars>>

ClickAccept ==
  \E idx \in 1..Len(proposalsRef) :
    LET r == acceptProposal(stateRef, gridMDRef, proposalsRef, idx) IN
    /\ stateRef' = r.state
    /\ gridMDRef' = r.grid
    /\ proposalsRef' = r.queue
    /\ patchRet' = NoRet
    /\ UNCHANGED gateOpenRef
    /\ UNCHANGED <<idemVars, turnVars, focusVars>>

ClickDiscard ==
  \E idx \in 1..Len(proposalsRef) :
    /\ proposalsRef' = discardProposal(proposalsRef, idx)
    /\ patchRet' = NoRet
    /\ UNCHANGED <<stateRef, gateOpenRef, gridMDRef>>
    /\ UNCHANGED <<idemVars, turnVars, focusVars>>

\* onConnect's arm opens the definition gate; nothing closes it again
DefinitionGateOpens ==
  /\ ~gateOpenRef
  /\ gateOpenRef' = TRUE
  /\ patchRet' = NoRet
  /\ UNCHANGED <<stateRef, proposalsRef, gridMDRef>>
  /\ UNCHANGED <<idemVars, turnVars, focusVars>>

StateInit == StoreInit /\ IdemOff /\ TurnInit /\ FocusOff

StateNext ==
  \/ CallApplyStatePatch
  \/ CallEnqueueProposals
  \/ ClickAccept
  \/ ClickDiscard
  \/ DefinitionGateOpens

StateSpec == StateInit /\ [][StateNext]_vars

----------------------------------------------------------------------------
\* IdemSpec: one add-patch applied twice to a drawn Perspective State

\* bucket contents the store can hold: trimmed, no two equal ignoring case
IdemContents ==
  { <<>>, <<<<"a">>>>, <<<<"A">>>>, <<<<"b">>>>,
    <<<<"a">>, <<"b">>>>, <<<<"b">>, <<"A">>>> }

IdemStates ==
  {[emptyState EXCEPT ![b] = c] : b \in Buckets, c \in IdemContents}

IdemPatches ==
  {<<<<b, a>>>> : b \in Buckets, a \in ArrsUpTo(StrPool, MaxArr)}
  \cup {<<<<"facts", <<s1>>>>, <<b2, <<s2>>>>>> :
          b2 \in Buckets \ {"facts"}, s1 \in StrPool, s2 \in StrPool}

IdemInit ==
  /\ stateRef \in IdemStates
  /\ gateOpenRef = FALSE
  /\ proposalsRef = <<>>
  /\ gridMDRef = emptyGrid
  /\ patchRet = NoRet
  /\ idemPatch \in IdemPatches
  /\ idemPc = "start"
  /\ idemOnce = emptyState
  /\ TurnInit
  /\ FocusOff

ApplyFirst ==
  /\ idemPc = "start"
  /\ LET r == applyStatePatch(stateRef, [add |-> idemPatch, remove |-> <<>>]) IN
     /\ stateRef' = r.state
     /\ idemOnce' = r.state
     /\ patchRet' = [called |-> TRUE, added |-> r.added, removed |-> r.removed]
  /\ idemPc' = "once"
  /\ UNCHANGED <<gateOpenRef, proposalsRef, gridMDRef, idemPatch, turnVars, focusVars>>

ApplySecond ==
  /\ idemPc = "once"
  /\ LET r == applyStatePatch(stateRef, [add |-> idemPatch, remove |-> <<>>]) IN
     /\ stateRef' = r.state
     /\ patchRet' = [called |-> TRUE, added |-> r.added, removed |-> r.removed]
  /\ idemPc' = "twice"
  /\ UNCHANGED <<gateOpenRef, proposalsRef, gridMDRef, idemPatch, idemOnce, turnVars, focusVars>>

IdemNext == ApplyFirst \/ ApplySecond

IdemSpec == IdemInit /\ [][IdemNext]_vars

----------------------------------------------------------------------------
\* Spec: the turn coordinator

Init == StoreInit /\ IdemOff /\ TurnInit /\ FocusOff

Next ==
  \/ onConnect
  \/ arm
  \/ onDisconnect
  \/ onKeyDown
  \/ HoldElapses
  \/ onKeyUpShort
  \/ onKeyUpCommit
  \/ onKeyUpTail
  \/ WindowElapses
  \/ onPolicyChange
  \/ onConfirmClick
  \/ onUserTextSend
  \/ onUserTextSendResume
  \/ finalizeTurnResume
  \/ responseCreated
  \/ responseTextDone
  \/ responseDone
  \/ transcriptionCompleted
  \/ transcriptionResume
  \/ outputAudioBufferCleared
  \/ outputAudioBufferStarted
  \/ speechStarted
  \/ bufferCommitted
  \/ errorEvent
  \/ ignoredEvent

Spec == Init /\ [][Next]_vars

----------------------------------------------------------------------------
\* PttSpec: push-to-talk and transcript acceptance.  The actions left out
\* write none of pttActiveRef, heldLong, manualCommitRef, windowOpen,
\* tailPending and voicePending.

PttNext ==
  \/ onConnect
  \/ arm
  \/ onDisconnect
  \/ onKeyDown
  \/ HoldElapses
  \/ onKeyUpShort
  \/ onKeyUpCommit
  \/ onKeyUpTail
  \/ WindowElapses
  \/ onPolicyChange
  \/ transcriptionCompleted
  \/ transcriptionResume
  \/ speechStarted
  \/ bufferCommitted
  \/ errorEvent

PttSpec == Init /\ [][PttNext]_vars

----------------------------------------------------------------------------
\* ReplySpec: response tracking and finalization.  The actions left out
\* write none of currentResponseIdRef, respPendingRef, finRuns and
\* finalizePending.

ReplyNext ==
  \/ onConnect
  \/ arm
  \/ onDisconnect
  \/ onKeyDown
  \/ HoldElapses
  \/ onKeyUpShort
  \/ onUserTextSend
  \/ onUserTextSendResume
  \/ finalizeTurnResume
  \/ responseCreated
  \/ responseTextDone
  \/ responseDone
  \/ outputAudioBufferCleared
  \/ outputAudioBufferStarted
  \/ speechStarted
  \/ bufferCommitted

ReplySpec == Init /\ [][ReplyNext]_vars

----------------------------------------------------------------------------
\* Claims

\* C8: while the definition gate is open, an applyStatePatch call returns
\* empty added and removed lists and leaves every bucket unchanged.
C8_GateSuppressesPatch ==
  [][(patchRet'.called /\ gateOpenRef)
       => (stateRef' = stateRef /\ patchRet' = emptyRet)]_vars

\* C8 witness: the gate is open, the store is not empty and a patch call
\* has just returned
C8_Witness ==
  /\ gateOpenRef
  /\ patchRet = emptyRet
  /\ stateRef["facts"] # <<>>

\* no two entries of arr are equal ignoring case
uniqueCi(arr) ==
  \A i, j \in 1..Len(arr) :
    i # j => toLowerCase(trim(arr[i])) # toLowerCase(trim(arr[j]))

\* C9: no Perspective State bucket holds two entries equal ignoring case.
C9_BucketsUniqueCi == \A b \in Buckets : uniqueCi(stateRef[b])

\* C9 witness: the options bucket holds two entries and an add_option
\* proposal has just been accepted
C9_Witness ==
  /\ Len(stateRef["options"]) = 2
  /\ proposalsRef = <<>>
  /\ gridMDRef.options # {}

\* C10: after the same add-patch has been applied twice with the gate
\* closed, the buckets equal those after the first application and the
\* second application reports nothing added.
C10_AddPatchIdempotent ==
  idemPc = "twice" => (stateRef = idemOnce /\ patchRet.called /\ patchRet.added = <<>>)

\* C10 witness: the patch was applied twice and its first application added
\* an entry with an upper-case letter next to an existing entry
C10_Witness ==
  /\ idemPc = "twice"
  /\ \E b \in Buckets : Len(stateRef[b]) = 2 /\ stateRef[b][2] = <<"A">>

\* the messages of a list, as a set
sent(ms) == {ms[i] : i \in 1..Len(ms)}

\* C1: a reply trigger (typed turn, accepted transcript, confirm click)
\* sends response.create only when no response is tracked and no
\* response.create is still unanswered or queued; so two triggers with no
\* done event in between produce one response.create.
C1_SingleReplyInFlight ==
  [][(countCreates(fx'.out) > 0 /\ SessionUpdate \notin sent(fx'.out))
       => /\ currentResponseIdRef = NoRid
          /\ ~respPendingRef
          /\ owed = 0
          /\ countCreates(outboxRef) = 0]_vars

\* C2: a response.created for a response that answers no response.create
\* of the coordinator is answered with response.cancel naming it and is not
\* tracked.
C2_UnsolicitedCancelled ==
  [][(provRid' # provRid /\ ~provSol')
       => /\ fx'.out = <<Cancel(provRid')>>
          /\ currentResponseIdRef' # provRid']_vars

\* under policy 'confirm', finalizeTurn ends with a reply staged
C3_StagedAfterFinalize ==
  [][("refreshFinalSummary" \in fx'.did /\ speakPolicyRef = "confirm")
       => pendingSpeakRef']_vars

\* under policy 'confirm', an audio response.create other than the connect
\* greeting is sent only by the confirm click or for an accepted utterance
\* that matches the confirmation phrases
C3_AudioOnlyAfterConfirmation ==
  [][(CreateAudio \in sent(fx'.out) /\ SessionUpdate \notin sent(fx'.out)
        /\ speakPolicyRef = "confirm")
       => \/ "performSpeak" \in fx'.did
          \/ voicePending # <<>> /\ isVoiceConfirmation(Head(voicePending))]_vars

\* C3: with policy 'confirm' a finalized turn leaves a reply staged and
\* unsent, and an audio response.create follows only a confirm click or a
\* confirming utterance.
C3_ConfirmGate == C3_StagedAfterFinalize /\ C3_AudioOnlyAfterConfirmation

\* C4: while the user is holding, or no manual commit is pending, or the
\* acceptance window is not open, no transcription-completed event adds a
\* transcript entry or starts the enrichment and reconcile calls.
C4_LateTranscriptIgnored ==
  [][(pttActiveRef \/ ~manualCommitRef \/ ~windowOpen)
       => /\ "addMessage(user, transcript)" \notin fx'.did
          /\ Len(voicePending') <= Len(voicePending)]_vars

\* C4 witness: a transcript that arrived after the window of a pending
\* manual commit had elapsed was ignored
C4_Witness ==
  /\ fx.did = {"log: ignoring transcript"}
  /\ manualCommitRef
  /\ ~windowOpen
  /\ ~pttActiveRef

\* C5: a release before MIN_PTT_MS sends no input_audio_buffer.commit,
\* opens no acceptance window and leaves no manual commit pending, so that
\* no transcript is accepted for it.
C5_ShortTapDiscarded ==
  /\ [](~heldLong => ~manualCommitRef)
  /\ [][(pttActiveRef /\ ~heldLong /\ ~pttActiveRef')
          => /\ BufferCommit \notin sent(fx'.out)
             /\ windowOpen' = windowOpen
             /\ ~manualCommitRef'
             /\ voicePending' = voicePending]_vars

\* C5 witness: a tap was released before MIN_PTT_MS on an open connection
C5_Witness ==
  /\ fx.did = {"onKeyUp: tap ignored"}
  /\ ~pttActiveRef
  /\ connRef = "open"

\* C6: finalizeTurn runs once for a tracked response: the first done-style
\* event for it runs finalizeTurn, and no later one runs it again.
C6_FinalizeOnce ==
  /\ [](finRuns <= 1)
  /\ [][(("response.text.done" \in fx'.did \/ "response.done" \in fx'.did)
           /\ respPendingRef /\ currentResponseIdRef = provRid)
          => /\ finRuns' = 1
             /\ ~respPendingRef'
             /\ "finalizeTurn" \in fx'.did]_vars

\* C6 witness: the tracked response was finalized and a later response.done
\* for it was ignored
C6_Witness ==
  /\ finRuns = 1
  /\ fx.did = {"response.done"}
  /\ currentResponseIdRef = NoRid

\* C7: from the sending of a response.cancel until the provider's
\* output_audio_buffer.cleared event is handled, the assistant audio is
\* muted.
C7_MutedUntilCleared == awaitingClear => muted

----------------------------------------------------------------------------
\* Tokens (app.js 136-138) and reconciliation against the extractor
\* (app.js 662-750)

\* the characters [a-z0-9]
LowerAlnum ==
  {"a", "b", "c", "d", "e", "f", "g", "h", "i", "j", "k", "l", "m", "n", "o", "p", "q", "r",
   "s", "t", "u", "v", "w", "x", "y", "z", "0", "1", "2", "3", "4", "5", "6", "7", "8", "9"}

\* \w of a regular expression, on lower-cased text
WordChars == LowerAlnum \cup {"_"}

\* the maximal runs of characters of cls in s, in order
RECURSIVE runsFrom(_, _, _)
runsFrom(s, cls, cur) ==
  IF s = <<>> THEN (IF cur = <<>> THEN <<>> ELSE <<cur>>)
  ELSE IF Head(s) \in cls THEN runsFrom(Tail(s), cls, Append(cur, Head(s)))
  ELSE (IF cur = <<>> THEN <<>> ELSE <<cur>>) \o runsFrom(Tail(s), cls, <<>>)

STOP ==
  { <<"a">>, <<"a", "n">>, <<"t", "h", "e">>, <<"o", "f">>, <<"t", "o">>, <<"i", "n">>,
    <<"o", "n">>, <<"f", "o", "r">>, <<"w", "i", "t", "h">>, <<"f", "r", "o", "m">>,
    <<"i", "n", "t", "o">>, <<"b", "y">>, <<"a", "t">>, <<"a", "s">>, <<"a", "n", "d">>,
    <<"o", "r">>, <<"n", "o", "t">>, <<"n", "o">>, <<"j", "u", "s", "t">>,
    <<"o", "n", "l", "y">>, <<"t", "h", "a", "t">>, <<"t", "h", "i", "s">>,
    <<"t", "h", "o", "s", "e">>, <<"t", "h", "e", "s", "e">>, <<"o", "v", "e", "r">>,
    <<"u", "n", "d", "e", "r">>, <<"n", "e", "a", "r">>, <<"a", "b", "o", "u", "t">>,
    <<"a", "r", "o", "u", "n", "d">>, <<"a", "f", "t", "e", "r">>,
    <<"b", "e", "f", "o", "r", "e">>, <<"t", "h", "a", "n">>, <<"t", "h", "e", "n">>,
    <<"t", "h", "e", "r", "e">>, <<"i", "s">>, <<"a", "r", "e">>, <<"b", "e">>,
    <<"b", "e", "e", "n">>, <<"b", "e", "i", "n", "g">>, <<"d", "o">>, <<"d", "o", "e", "s">>,
    <<"d", "i", "d">>, <<"c", "a", "n">>, <<"c", "o", "u", "l", "d">>,
    <<"s", "h", "o", "u", "l", "d">>, <<"w", "o", "u", "l", "d">>, <<"w", "i", "l", "l">>,
    <<"m", "a", "y">>, <<"m", "i", "g", "h", "t">>, <<"h", "a", "v", "e">>, <<"h", "a", "s">>,
    <<"h", "a", "d">>, <<"i">>, <<"w", "e">>, <<"y", "o", "u">>, <<"t", "h", "e", "y">>,
    <<"h", "e">>, <<"s", "h", "e">>, <<"i", "t">>, <<"m", "y">>, <<"o", "u", "r">>,
    <<"y", "o", "u", "r">>, <<"t", "h", "e", "i", "r">>, <<"m", "e">>, <<"u", "s">> }

\* tokens(s): lower-case, every character outside [a-z0-9\s] becomes a
\* blank, split on blanks, drop the empty strings and the STOP words
tokens(s) == SelectSeq(runsFrom(toLowerCase(s), LowerAlnum, <<>>), LAMBDA w : w \notin STOP)

\* overlap(a, b): some word of b is in a
overlap(a, b) == \E i \in 1..Len(a) : \E j \in 1..Len(b) : a[i] = b[j]

\* the words of computeRemovePatchAgainst's NEG pattern; its alternative
\* "no longer" matches only where "no" does
NegWords ==
  { <<"n", "o">>, <<"n", "o", "t">>, <<"i", "n", "s", "t", "e", "a", "d">>,
    <<"r", "a", "t", "h", "e", "r">>, <<"p", "r", "e", "f", "e", "r">>,
    <<"s", "w", "i", "t", "c", "h">>, <<"c", "h", "a", "n", "g", "e">>, <<"s", "t", "o", "p">>,
    <<"c", "a", "n", "c", "e", "l">>, <<"d", "r", "o", "p">>, <<"r", "e", "m", "o", "v", "e">>,
    <<"e", "x", "c", "l", "u", "d", "e">> }

\* NEG.test(text): /\b(no|not|...)\b/i finds one of the words as a maximal
\* run of word characters
NEG(text) ==
  \E w \in NegWords :
    \E k \in 1..Len(runsFrom(toLowerCase(text), WordChars, <<>>)) :
      runsFrom(toLowerCase(text), WordChars, <<>>)[k] = w

\* the buckets in the order both loops visit them
BucketOrder == <<"goals", "facts", "questions", "options", "decisions", "next_steps", "risks">>

\* mutant of topical: the overlap with the last utterance is not looked at
topical_WantOnly(itok, lastTok, wantTok) ==
  \E k \in 1..Len(wantTok) : overlap(itok, wantTok[k])

\* overlap(itok,lastTok) || wantTok.some(wt => overlap(itok,wt))
topical(itok, lastTok, wantTok) ==
  overlap(itok, lastTok) \/ \E k \in 1..Len(wantTok) : overlap(itok, wantTok[k])

\* mutant of conflicts: every entry conflicts
conflicts_Always(itok, wantTok) == TRUE

\* wantTok.some(wt => inter >= 2 || inter / minLen >= 0.4), inter counting
\* the tokens of the entry that occur in wt
conflicts(itok, wantTok) ==
  \E k \in 1..Len(wantTok) :
    LET wt == wantTok[k]
        inter == Cardinality({i \in 1..Len(itok) : \E j \in 1..Len(wt) : wt[j] = itok[i]})
        minLen == IF min(Len(itok), Len(wt)) < 1 THEN 1 ELSE min(Len(itok), Len(wt))
    IN inter >= 2 \/ 10 * inter >= 4 * minLen

\* the loop over the buckets bs: <<bucket, rem>> for each non-empty rem;
\* removable is the body of the loop over curArr
RECURSIVE removePairs(_, _, _, _)
removePairs(st, extracted, lastUser, bs) ==
  IF bs = <<>> THEN <<>>
  ELSE LET b == Head(bs)
           wantArr == extracted[b]
           wantSet == {toLowerCase(trim(wantArr[k])) : k \in 1..Len(wantArr)}
           wantTok == [k \in 1..Len(wantArr) |-> tokens(wantArr[k])]
           removable(item) ==
             /\ toLowerCase(trim(item)) # <<>>
             /\ toLowerCase(trim(item)) \notin wantSet
             /\ tokens(item) # <<>>
             /\ topical(tokens(item), tokens(lastUser), wantTok)
             /\ (NEG(lastUser) \/ conflicts(tokens(item), wantTok))
           rem == SelectSeq(st[b], removable)
       IN (IF rem # <<>> THEN <<<<b, rem>>>> ELSE <<>>)
          \o removePairs(st, extracted, lastUser, Tail(bs))

\* computeRemovePatchAgainst(extracted, lastUser) with stateRef.current = st:
\* the remove part of the patch, <<>> for null
computeRemovePatchAgainst(st, extracted, lastUser) ==
  removePairs(st, extracted, lastUser, BucketOrder)

\* addAndReconcileForUserTurn's add loop: want.filter(v => v && !hasCi(cur,v))
RECURSIVE addPairs(_, _, _)
addPairs(st, wantState, bs) ==
  IF bs = <<>> THEN <<>>
  ELSE LET b == Head(bs)
           toAdd == SelectSeq(wantState[b], LAMBDA v : v # <<>> /\ ~hasCi(st[b], v))
       IN (IF toAdd # <<>> THEN <<<<b, toAdd>>>> ELSE <<>>)
          \o addPairs(st, wantState, Tail(bs))

\* String.prototype.includes
includes(s, w) == \E i \in 1..Len(s) : i + Len(w) - 1 <= Len(s) /\ SubSeq(s, i, i + Len(w) - 1) = w

\* RegExp.prototype.test for a pattern given as its list of alternatives:
\* the word w, with \b required before it (lb) and after it (rb)
test(s, alts) ==
  LET isWordAt(i) == i >= 1 /\ i <= Len(s) /\ s[i] \in WordChars
      boundary(i) == isWordAt(i - 1) # isWordAt(i)
  IN \E k \in 1..Len(alts) : \E i \in 1..Len(s) :
       /\ i + Len(alts[k].w) - 1 <= Len(s)
       /\ SubSeq(s, i, i + Len(alts[k].w) - 1) = alts[k].w
       /\ (alts[k].lb => boundary(i))
       /\ (alts[k].rb => boundary(i + Len(alts[k].w)))

\* the table L of inferCriteriaAndCellsFromUtterance: criterion, pattern,
\* and the weight, which depends on whether low includes one of boost
Heuristics ==
  <<
    [crit |-> <<"c", "o", "s", "t">>,
     test |-> <<[w |-> <<"c", "o", "s", "t">>, lb |-> TRUE, rb |-> TRUE],
               [w |-> <<"p", "r", "i", "c", "e">>, lb |-> TRUE, rb |-> TRUE],
               [w |-> <<"b", "u", "d", "g", "e", "t">>, lb |-> TRUE, rb |-> TRUE],
               [w |-> <<"e", "x", "p", "e", "n", "s", "i", "v", "e">>, lb |-> TRUE, rb |-> TRUE],
               [w |-> <<"c", "h", "e", "a", "p">>, lb |-> TRUE, rb |-> TRUE]>>,
     boost |-> {<<"c", "h", "e", "a", "p">>, <<"l", "o", "w", "e", "r">>}, weightIf |-> 20, weightElse |-> -30],
    [crit |-> <<"c", "o", "m", "m", "u", "t", "e">>,
     test |-> <<[w |-> <<"c", "o", "m", "m", "u", "t", "e">>, lb |-> TRUE, rb |-> FALSE],
               [w |-> <<"m", "i", "n", "u", "t", "e", "s">>, lb |-> FALSE, rb |-> FALSE],
               [w |-> <<"m", "i", "n">>, lb |-> FALSE, rb |-> FALSE],
               [w |-> <<"t", "r", "a", "i", "n">>, lb |-> FALSE, rb |-> FALSE],
               [w |-> <<"s", "u", "b", "w", "a", "y">>, lb |-> FALSE, rb |-> FALSE],
               [w |-> <<"w", "a", "l", "k">>, lb |-> FALSE, rb |-> TRUE]>>,
     boost |-> {<<"s", "h", "o", "r", "t">>, <<"<">>}, weightIf |-> 20, weightElse |-> -10],
    [crit |-> <<"s", "p", "a", "c", "e">>,
     test |-> <<[w |-> <<"s", "p", "a", "c", "e">>, lb |-> TRUE, rb |-> FALSE],
               [w |-> <<"b", "e", "d", "r", "o", "o", "m">>, lb |-> FALSE, rb |-> FALSE],
               [w |-> <<"b", "r">>, lb |-> FALSE, rb |-> FALSE],
               [w |-> <<"s", "q", "f", "t">>, lb |-> FALSE, rb |-> FALSE],
               [w |-> <<"s", "q", " ", "f", "t">>, lb |-> FALSE, rb |-> FALSE],
               [w |-> <<"s", "i", "z", "e">>, lb |-> FALSE, rb |-> TRUE]>>,
     boost |-> {}, weightIf |-> 20, weightElse |-> 20],
    [crit |-> <<"q", "u", "a", "l", "i", "t", "y">>,
     test |-> <<[w |-> <<"q", "u", "a", "l", "i", "t", "y">>, lb |-> TRUE, rb |-> FALSE],
               [w |-> <<"n", "i", "c", "e">>, lb |-> FALSE, rb |-> FALSE],
               [w |-> <<"r", "e", "n", "o", "v", "a", "t", "e", "d">>, lb |-> FALSE, rb |-> FALSE],
               [w |-> <<"m", "o", "d", "e", "r", "n">>, lb |-> FALSE, rb |-> FALSE],
               [w |-> <<"n", "e", "w">>, lb |-> FALSE, rb |-> TRUE]>>,
     boost |-> {}, weightIf |-> 15, weightElse |-> 15],
    [crit |-> <<"s", "a", "f", "e", "t", "y">>,
     test |-> <<[w |-> <<"s", "a", "f", "e">>, lb |-> TRUE, rb |-> FALSE],
               [w |-> <<"c", "r", "i", "m", "e">>, lb |-> FALSE, rb |-> FALSE],
               [w |-> <<"n", "o", "i", "s", "y">>, lb |-> FALSE, rb |-> FALSE],
               [w |-> <<"q", "u", "i", "e", "t">>, lb |-> FALSE, rb |-> TRUE]>>,
     boost |-> {<<"q", "u", "i", "e", "t">>, <<"s", "a", "f", "e">>}, weightIf |-> 15, weightElse |-> -15],
    [crit |-> <<"r", "i", "s", "k">>,
     test |-> <<[w |-> <<"r", "i", "s", "k">>, lb |-> TRUE, rb |-> FALSE],
               [w |-> <<"u", "n", "c", "e", "r", "t", "a", "i", "n">>, lb |-> FALSE, rb |-> FALSE],
               [w |-> <<"u", "n", "s", "t", "a", "b", "l", "e">>, lb |-> FALSE, rb |-> TRUE]>>,
     boost |-> {}, weightIf |-> -20, weightElse |-> -20],
    [crit |-> <<"c", "o", "n", "v", "e", "n", "i", "e", "n", "c", "e">>,
     test |-> <<[w |-> <<"c", "o", "n", "v", "e", "n", "i", "e", "n", "t">>, lb |-> TRUE, rb |-> FALSE],
               [w |-> <<"n", "e", "a", "r">>, lb |-> FALSE, rb |-> FALSE],
               [w |-> <<"c", "l", "o", "s", "e">>, lb |-> FALSE, rb |-> TRUE]>>,
     boost |-> {}, weightIf |-> 15, weightElse |-> 15]
  >>

\* inferCriteriaAndCellsFromUtterance(text); the weight is in tenths, conf
\* 0.6 in hundredths
inferCriteriaAndCellsFromUtterance(text) ==
  LET low == toLowerCase(text)
      hit == SelectSeq(Heuristics, LAMBDA h : test(low, h.test))
  IN [k \in 1..Len(hit) |->
        [criterion |-> hit[k].crit,
         weight |-> 10 * (IF \E b \in hit[k].boost : includes(low, b)
                          THEN hit[k].weightIf ELSE hit[k].weightElse),
         conf |-> 60]]

\* props of the extractor: the wanted options the grid does not hold
extractorProposals(grid, opts) ==
  LET new == SelectSeq(opts, LAMBDA o : o \notin grid.options)
  IN [k \in 1..Len(new) |-> mkProposal("add_option", new[k], <<>>, 0, 0, "extractor")]

\* props of the heuristics; onlyOpt is the first option of the grid, <<>>
\* if it has none
RECURSIVE heuristicProposals(_, _, _)
heuristicProposals(grid, hits, onlyOpt) ==
  IF hits = <<>> THEN <<>>
  ELSE LET h == Head(hits) IN
       (IF h.criterion \notin grid.criteria
        THEN <<mkProposal("add_criterion", <<>>, h.criterion, 0, 0, "heuristic")>> ELSE <<>>)
       \o (IF onlyOpt # <<>>
           THEN <<mkProposal("set_cell", onlyOpt, h.criterion, h.weight, h.conf, "heuristic")>>
           ELSE <<>>)
       \o heuristicProposals(grid, Tail(hits), onlyOpt)

----------------------------------------------------------------------------
\* ReconcileSpec: one addAndReconcileForUserTurn call on drawn inputs

\* entries of the store and of the extractor's answer
Entries ==
  [budgetIsTight  |-> <<"b", "u", "d", "g", "e", "t", " ", "i", "s", " ", "t", "i", "g", "h", "t">>,
   rentIsHigh     |-> <<"r", "e", "n", "t", " ", "i", "s", " ", "h", "i", "g", "h">>,
   tightBudgetNow |-> <<"t", "i", "g", "h", "t", " ", "b", "u", "d", "g", "e", "t", " ", "n", "o", "w">>,
   paddedBudget   |-> <<" ", "B", "u", "d", "g", "e", "t", " ", "i", "s", " ", "t", "i", "g", "h", "t">>,
   highCeilings   |-> <<"h", "i", "g", "h", " ", "c", "e", "i", "l", "i", "n", "g", "s">>]

\* last user utterances: a correction of the budget fact, a remark on it,
\* a negation about nothing stored, a remark on the rent, silence
ReconcileUtterances ==
  { <<"a", "c", "t", "u", "a", "l", "l", "y", ",", " ", "b", "u", "d", "g", "e", "t", " ", "i", "s", " ", "n", "o", "t", " ", "t", "i", "g", "h", "t", " ", "a", "n", "y", "m", "o", "r", "e">>,
    <<"b", "u", "d", "g", "e", "t", " ", "i", "s", " ", "f", "i", "n", "e">>,
    <<"n", "o", "t", " ", "a", "n", "y", "m", "o", "r", "e">>,
    <<"r", "e", "n", "t", " ", "i", "s", " ", "c", "h", "e", "a", "p">>,
    <<>> }

\* the store, the answer of /state and the grid are drawn; the gate is
\* drawn too, for the early return
ReconcileInit ==
  /\ stateRef \in
       {[emptyState EXCEPT !["facts"] = f, !["risks"] = r] :
          f \in {<<>>, <<Entries.budgetIsTight>>, <<Entries.rentIsHigh>>,
                 <<Entries.budgetIsTight, Entries.rentIsHigh>>},
          r \in {<<>>, <<Entries.tightBudgetNow>>}}
  /\ gateOpenRef \in BOOLEAN
  /\ proposalsRef = <<>>
  /\ gridMDRef \in {emptyGrid, [emptyGrid EXCEPT !.options = {Entries.rentIsHigh}]}
  /\ patchRet = NoRet
  /\ IdemOff
  /\ TurnInit
  /\ lastEnqueue = [offered |-> 0, queued |-> 0]
  /\ channel = [calls |-> 0, sent |-> <<>>]
  /\ toolCall = NoCall
  /\ propose = ProposeNone
  /\ commits = CommitsNone
  /\ mic = MicNone
  /\ voice = VoiceNone
  /\ helpers = HelpersNone
  /\ reconcile \in
       {[ReconcileNone EXCEPT !.pc = "start", !.lastUserText = u,
                              !.answer = [emptyState EXCEPT !["facts"] = f, !["options"] = o]] :
          u \in ReconcileUtterances,
          f \in ArrsUpTo({Entries.rentIsHigh, Entries.paddedBudget, Entries.tightBudgetNow,
                          Entries.highCeilings}, MaxArr),
          o \in {<<>>, <<Entries.rentIsHigh>>}}

\* addAndReconcileForUserTurn(lastUserText) up to the await of postJSON
addAndReconcileForUserTurn ==
  /\ reconcile.pc = "start"
  /\ reconcile' = [reconcile EXCEPT !.pc = IF gateOpenRef THEN "returned" ELSE "await",
                                    !.before = stateRef]
  /\ UNCHANGED <<storeVars, idemVars, turnVars, lastEnqueue, channel, toolCall, propose, commits, mic, voice, helpers>>

\* the rest of it: postJSON('/state') answered (ok) or failed.  onlyOpt is
\* Array.from(grid.options.values())[0]: the grid keeps its options as a
\* set, so any of them may be the first
addAndReconcileResume ==
  /\ reconcile.pc = "await"
  /\ \E ok \in BOOLEAN,
        onlyOpt \in (IF gridMDRef.options = {} THEN {<<>>} ELSE gridMDRef.options) :
       LET wantState == IF ok THEN reconcile.answer ELSE emptyState
           add == addPairs(stateRef, wantState, BucketOrder)
           afterAdd == IF add # <<>>
                       THEN applyStatePatch(stateRef, [add |-> add, remove |-> <<>>]).state
                       ELSE stateRef
           rm == computeRemovePatchAgainst(afterAdd, wantState, reconcile.lastUserText)
           afterRemove == IF rm # <<>>
                          THEN applyStatePatch(afterAdd, [add |-> <<>>, remove |-> rm]).state
                          ELSE afterAdd
           props == extractorProposals(gridMDRef, wantState["options"])
                    \o heuristicProposals(gridMDRef,
                         inferCriteriaAndCellsFromUtterance(reconcile.lastUserText), onlyOpt)
       IN /\ stateRef' = afterRemove
          /\ proposalsRef' = enqueueProposals(proposalsRef, gridMDRef, props)
          /\ patchRet' = NoRet
          /\ reconcile' = [reconcile EXCEPT !.pc = "done", !.failed = ~ok, !.cur = afterAdd,
                                            !.want = wantState, !.rmPatch = rm]
  /\ UNCHANGED <<gateOpenRef, gridMDRef, idemVars, turnVars, lastEnqueue, channel, toolCall, propose, commits, mic, voice, helpers>>

ReconcileNext ==
  \/ addAndReconcileForUserTurn
  \/ addAndReconcileResume

ReconcileSpec == ReconcileInit /\ [][ReconcileNext]_vars

----------------------------------------------------------------------------
\* Claims on reconciliation

\* the entries rmPatch names for bucket b
removedIn(rmPatch, b) ==
  UNION {{rmPatch[k][2][i] : i \in 1..Len(rmPatch[k][2])} :
           k \in {j \in 1..Len(rmPatch) : rmPatch[j][1] = b}}

sharesToken(a, b) == overlap(tokens(a), tokens(b))

\* C11: with no negation or correction marker in the last utterance, an
\* entry that shares no non-stopword token with any wanted entry of its
\* bucket is not in the remove patch and stays in the store; if that is so
\* for every stored entry, the remove patch is empty.
C11_KeptWithoutMarkerAndOverlap ==
  (reconcile.pc = "done" /\ ~NEG(reconcile.lastUserText)) =>
    LET untouched(b, item) ==
          \A k \in 1..Len(reconcile.want[b]) : ~sharesToken(item, reconcile.want[b][k])
    IN /\ \A b \in Buckets : \A i \in 1..Len(reconcile.cur[b]) :
            untouched(b, reconcile.cur[b][i])
              => /\ reconcile.cur[b][i] \notin removedIn(reconcile.rmPatch, b)
                 /\ \E j \in 1..Len(stateRef[b]) : stateRef[b][j] = reconcile.cur[b][i]
       /\ (\A b \in Buckets : \A i \in 1..Len(reconcile.cur[b]) :
             untouched(b, reconcile.cur[b][i]))
            => reconcile.rmPatch = <<>>

\* C11 witness: the budget fact, left out by an answer about the rent and
\* mentioned without a marker, was kept
C11_Witness ==
  /\ reconcile.pc = "done"
  /\ ~reconcile.failed
  /\ reconcile.lastUserText = <<"b", "u", "d", "g", "e", "t", " ", "i", "s", " ", "f", "i", "n", "e">>
  /\ reconcile.want["facts"] = <<Entries.rentIsHigh>>
  /\ reconcile.cur["facts"] = <<Entries.budgetIsTight, Entries.rentIsHigh>>
  /\ reconcile.rmPatch = <<>>
  /\ stateRef["facts"] = <<Entries.budgetIsTight, Entries.rentIsHigh>>

\* C12: an entry that the extraction leaves out, while the last utterance
\* has a negation or correction marker and shares a non-stopword token with
\* the entry, is in the remove patch of its bucket.
C12_RemovedOnMarkerAndOverlap ==
  (reconcile.pc = "done" /\ ~reconcile.failed /\ NEG(reconcile.lastUserText)) =>
    \A b \in Buckets : \A i \in 1..Len(reconcile.cur[b]) :
      (/\ ~hasCi(reconcile.want[b], reconcile.cur[b][i])
       /\ sharesToken(reconcile.cur[b][i], reconcile.lastUserText))
        => reconcile.cur[b][i] \in removedIn(reconcile.rmPatch, b)

\* C12 witness: 'budget is tight' was removed after 'actually, budget is
\* not tight anymore' with an answer that leaves it out
C12_Witness ==
  /\ reconcile.pc = "done"
  /\ ~reconcile.failed
  /\ reconcile.lastUserText = <<"a", "c", "t", "u", "a", "l", "l", "y", ",", " ", "b", "u", "d", "g", "e", "t", " ", "i", "s", " ", "n", "o", "t", " ", "t", "i", "g", "h", "t", " ", "a", "n", "y", "m", "o", "r", "e">>
  /\ reconcile.want["facts"] = <<>>
  /\ reconcile.cur["facts"] = <<Entries.budgetIsTight>>
  /\ reconcile.rmPatch = <<<<"facts", <<Entries.budgetIsTight>>>>>>
  /\ stateRef["facts"] = <<>>

----------------------------------------------------------------------------
\* QueueSpec: the proposal queue and the decision grid under lists of
\* proposals from the extractor, the heuristics and the scout

\* longest list handed to enqueueProposals, and longest queue explored
MaxList == 2

\* proposals as their producers send them: the extractor and the scout name
\* one option in two casings, the heuristics propose a criterion and a
\* cell, and the scout's set_cell may come without an option
QueueProposals ==
  { mkProposal("add_option", <<"A">>, <<>>, 0, 0, "extractor"),
    mkProposal("add_option", <<"a">>, <<>>, 0, 0, "scout"),
    mkProposal("add_criterion", <<>>, <<"b">>, 0, 0, "heuristic"),
    mkProposal("set_cell", <<"a">>, <<"b">>, 200, 60, "heuristic"),
    mkProposal("set_cell", <<>>, <<"b">>, 200, 60, "scout") }

\* some caller runs enqueueProposals(list)
CallEnqueueProposalsList ==
  \E list \in ArrsUpTo(QueueProposals, MaxList) \ {<<>>} :
    LET q == enqueueProposals(proposalsRef, gridMDRef, list) IN
    /\ Len(q) <= MaxList
    /\ proposalsRef' = q
    /\ patchRet' = NoRet
    /\ lastEnqueue' = [offered |-> Len(list), queued |-> Len(q) - Len(proposalsRef)]
    /\ UNCHANGED <<stateRef, gateOpenRef, gridMDRef>>
    /\ UNCHANGED <<idemVars, turnVars, reconcile, channel, toolCall, propose, commits, mic, voice, helpers>>

QueueNext ==
  \/ CallEnqueueProposalsList
  \/ ClickAccept
  \/ ClickDiscard

QueueSpec == StateInit /\ [][QueueNext]_vars

----------------------------------------------------------------------------
\* Claims on the proposal queue and the grid

\* C13: enqueueProposals adds no proposal whose type, option and criterion,
\* compared ignoring case, are those of a proposal already queued or of an
\* earlier proposal of the same list.
C13_NoDuplicateKeyEnqueued ==
  [][Len(proposalsRef') > Len(proposalsRef) =>
       \A i \in (Len(proposalsRef) + 1)..Len(proposalsRef') : \A j \in 1..(i - 1) :
         ~ /\ proposalsRef'[j].type = proposalsRef'[i].type
           /\ toLowerCase(proposalsRef'[j].option) = toLowerCase(proposalsRef'[i].option)
           /\ toLowerCase(proposalsRef'[j].criterion) = toLowerCase(proposalsRef'[i].criterion)]_vars

\* C13 witness: a list of two proposals reached an empty queue with an
\* empty grid, and one add_option was queued
C13_Witness ==
  /\ lastEnqueue = [offered |-> 2, queued |-> 1]
  /\ gridMDRef = emptyGrid
  /\ Len(proposalsRef) = 1
  /\ proposalsRef[1].type = "add_option"

\* the grid holds what proposal p proposes, compared ignoring case and
\* outer blanks
heldByGrid(grid, p) ==
  \/ p.type = "add_option"
     /\ \E o \in grid.options : toLowerCase(trim(o)) = toLowerCase(trim(p.option))
  \/ p.type = "add_criterion"
     /\ \E c \in grid.criteria : toLowerCase(trim(c)) = toLowerCase(trim(p.criterion))
  \/ p.type = "set_cell"
     /\ <<toLowerCase(trim(p.option)), toLowerCase(trim(p.criterion))>> \in DOMAIN grid.cells

\* C14: enqueueProposals queues no proposal for an option, a criterion or a
\* cell that the grid holds already, whatever the casing.
C14_AcceptedNeverProposedAgain ==
  [][Len(proposalsRef') > Len(proposalsRef) =>
       \A i \in (Len(proposalsRef) + 1)..Len(proposalsRef') :
         ~heldByGrid(gridMDRef, proposalsRef'[i])]_vars

\* C15: every cell of the grid is for an option of the grid's option set and
\* a criterion of its criterion set.
C15_CellsReferenceSets ==
  \A key \in DOMAIN gridMDRef.cells :
    /\ \E o \in gridMDRef.options : toLowerCase(trim(o)) = key[1]
    /\ \E c \in gridMDRef.criteria : toLowerCase(trim(c)) = key[2]

----------------------------------------------------------------------------
\* OutboxSpec: safeSend and flushOutbox on a data channel whose send may
\* throw (app.js 569-583, 1313-1352).  A payload is identified by the number
\* of the safeSend call that made it.

\* safeSend calls of the handlers in one run
MaxCalls == 3

\* flushOutbox() on outbox with the channel open: k sends succeed; then the
\* outbox is empty or, if thrown, the next payload has been shifted off and
\* its send threw, which ends the loop
flushOutbox(outbox, taken, k, thrown) ==
  [sent   |-> taken \o SubSeq(outbox, 1, k),
   outbox |-> SubSeq(outbox, k + (IF thrown THEN 2 ELSE 1), Len(outbox))]

\* the outcomes <<k, thrown>> flushOutbox can have on outbox
flushOutcomes(outbox) ==
  {<<Len(outbox), FALSE>>} \cup {<<k, TRUE>> : k \in 0..(Len(outbox) - 1)}

\* safeSend(obj) on the state [calls, sent, outbox]; ok: dc.send returned
safeSend(ch, open, ok) ==
  IF open /\ ok
  THEN [ch EXCEPT !.calls = @ + 1, !.sent = Append(@, ch.calls + 1)]
  ELSE [ch EXCEPT !.calls = @ + 1, !.outbox = Append(@, ch.calls + 1)]

\* a handler calls safeSend
safeSendCall ==
  /\ channel.calls < MaxCalls
  /\ \E ok \in BOOLEAN :
       LET r == safeSend([calls |-> channel.calls, sent |-> channel.sent,
                          outbox |-> outboxRef], connRef = "open", ok) IN
       /\ channel' = [calls |-> r.calls, sent |-> r.sent]
       /\ outboxRef' = r.outbox
  /\ UNCHANGED <<storeVars, idemVars, reconcile, lastEnqueue, toolCall, propose, commits, mic, voice, helpers, connRef, pttActiveRef,
                  heldLong, manualCommitRef, windowOpen, turnCommittedRef,
                  expectResponseRef, currentResponseIdRef, respPendingRef, speakGateRef,
                  pendingSpeakRef, confirmEnabled, unmuteWhenClearedRef, muted,
                  assistantSpeakingRef, speakPolicyRef, tailPending, typedPending,
                  voicePending, finalizePending, owed, provRid, provPhase, provSol, finRuns,
                  awaitingClear, fx>>

\* flushOutbox() from the 200 ms timer or at the end of handleServerEvent
flushOutboxCall ==
  /\ connRef = "open"
  /\ outboxRef # <<>>
  /\ \E o \in flushOutcomes(outboxRef) :
       LET r == flushOutbox(outboxRef, channel.sent, o[1], o[2]) IN
       /\ channel' = [channel EXCEPT !.sent = r.sent]
       /\ outboxRef' = r.outbox
  /\ UNCHANGED <<storeVars, idemVars, reconcile, lastEnqueue, toolCall, propose, commits, mic, voice, helpers, connRef, pttActiveRef,
                  heldLong, manualCommitRef, windowOpen, turnCommittedRef,
                  expectResponseRef, currentResponseIdRef, respPendingRef, speakGateRef,
                  pendingSpeakRef, confirmEnabled, unmuteWhenClearedRef, muted,
                  assistantSpeakingRef, speakPolicyRef, tailPending, typedPending,
                  voicePending, finalizePending, owed, provRid, provPhase, provSol, finRuns,
                  awaitingClear, fx>>

\* arm() when the data channel opens: safeSend(session.update), the
\* greeter's safeSend(response.create), then flushOutbox()
armChannel ==
  /\ connRef = "connecting"
  /\ connRef' = "open"
  /\ muted' = FALSE
  /\ gateOpenRef' = TRUE
  /\ turnCommittedRef' = TRUE
  /\ expectResponseRef' = TRUE
  /\ speakGateRef' = FALSE
  /\ \E ok1 \in BOOLEAN, ok2 \in BOOLEAN :
       LET s1 == safeSend([calls |-> channel.calls, sent |-> channel.sent,
                           outbox |-> outboxRef], TRUE, ok1)
           s2 == safeSend(s1, TRUE, ok2)
       IN \E o \in flushOutcomes(s2.outbox) :
            LET r == flushOutbox(s2.outbox, s2.sent, o[1], o[2]) IN
            /\ channel' = [calls |-> s2.calls, sent |-> r.sent]
            /\ outboxRef' = r.outbox
  /\ UNCHANGED <<stateRef, proposalsRef, gridMDRef, patchRet, idemVars, reconcile, toolCall, propose, commits, mic, voice, helpers,
                  lastEnqueue, pttActiveRef, heldLong, manualCommitRef, windowOpen,
                  currentResponseIdRef, respPendingRef, pendingSpeakRef, confirmEnabled,
                  unmuteWhenClearedRef, assistantSpeakingRef, speakPolicyRef, tailPending,
                  typedPending, voicePending, finalizePending, owed, provRid, provPhase,
                  provSol, finRuns, awaitingClear, fx>>

OutboxNext ==
  \/ onConnect
  \/ armChannel
  \/ safeSendCall
  \/ flushOutboxCall

OutboxSpec == Init /\ [][OutboxNext]_vars

----------------------------------------------------------------------------
\* Claims on the outbox

\* C16: the channel receives the payloads in the order of their safeSend
\* calls.
C16_DeliveredInCallOrder ==
  \A i \in 1..Len(channel.sent) : \A j \in 1..Len(channel.sent) :
    i < j => channel.sent[i] < channel.sent[j]

\* C17: while the session is connected, a payload passed to safeSend has
\* been taken by the channel or is still in the outbox.
C17_SentOrStillQueued ==
  \A n \in 1..channel.calls :
    \/ \E i \in 1..Len(channel.sent) : channel.sent[i] = n
    \/ \E i \in 1..Len(outboxRef) : outboxRef[i] = n

----------------------------------------------------------------------------
\* ToolSpec: tool calls.  sendToolOutput is the only function that puts a
\* tool output on the channel.

ToolCallIds == {"call_1", "call_2"}

\* the message sendToolOutput(callId, payload) passes to safeSend
sendToolOutput(callId) ==
  [type |-> "response.create", audio |-> FALSE, rid |-> NoRid, tool_call_id |-> callId]

\* case 'response.function_call_arguments.done' for the call ev.call_id:
\* the case breaks at once
functionCallArgumentsDone ==
  \E callId \in ToolCallIds :
    /\ connRef = "open"
    /\ toolCall' = callId
    /\ fx' = effect(<<>>, {})
    /\ UNCHANGED <<storeVars, idemVars, reconcile, lastEnqueue, channel, propose, commits, mic, voice, helpers, connRef,
                    outboxRef, pttActiveRef, heldLong, manualCommitRef, windowOpen,
                    turnCommittedRef, expectResponseRef, currentResponseIdRef,
                    respPendingRef, speakGateRef, pendingSpeakRef, confirmEnabled,
                    unmuteWhenClearedRef, muted, assistantSpeakingRef, speakPolicyRef,
                    tailPending, typedPending, voicePending, finalizePending, owed,
                    provRid, provPhase, provSol, finRuns, awaitingClear>>

ToolNext ==
  \/ onConnect
  \/ arm
  \/ onDisconnect
  \/ onUserTextSend
  \/ onUserTextSendResume
  \/ responseCreated
  \/ responseDone
  \/ functionCallArgumentsDone

ToolSpec == Init /\ [][ToolNext]_vars

\* C18: the step that handles response.function_call_arguments.done for a
\* call id passes a tool output for that call id to safeSend.
C18_ToolOutputForEveryCall ==
  [][functionCallArgumentsDone =>
       \E i \in 1..Len(fx'.out) : fx'.out[i] = sendToolOutput(toolCall')]_vars

----------------------------------------------------------------------------
\* SessionSpec: connections and the Perspective State.  applyStatePatch is
\* called by onUserTextSend (849), the transcript handler (1020) and the
\* local extractor (1268) whether or not a connection is up.

SessionNext ==
  \/ onConnect
  \/ arm
  \/ onDisconnect
  \/ CallApplyStatePatch

SessionSpec == Init /\ [][SessionNext]_vars

\* C20: the Perspective State is empty when onConnect starts a connection
\* and all seven buckets are empty once onDisconnect has run.
C20_EmptyAtSessionBounds ==
  [][/\ onConnect => stateRef = emptyState
     /\ onDisconnect => stateRef' = emptyState]_vars

----------------------------------------------------------------------------
\* ScenarioSpec: one spoken turn, from the accepted transcript to the
\* accepted proposal, on the inputs of the end-to-end scenario

\* the utterance and the answer of /state
Scenario ==
  [utterance |-> <<"I", " ", "w", "a", "n", "t", " ", "t", "o", " ", "c", "o", "m", "p", "a", "r", "e", " ", "s", "t", "a", "y", "i", "n", "g", " ", "i", "n", " ", "B", "r", "a", "n", "d", "o", "n", " ", "v", "e", "r", "s", "u", "s", " ", "m", "o", "v", "i", "n", "g", " ", "t", "o", " ", "S", "t", ".", " ", "P", "e", "t", "e", ",", " ", "c", "o", "s", "t", " ", "m", "a", "t", "t", "e", "r", "s", " ", "a", " ", "l", "o", "t">>,
   options   |-> << <<"S", "t", "a", "y", " ", "i", "n", " ", "B", "r", "a", "n", "d", "o", "n">>, <<"M", "o", "v", "e", " ", "t", "o", " ", "S", "t", ".", " ", "P", "e", "t", "e">> >>,
   facts     |-> << <<"c", "o", "s", "t", " ", "m", "a", "t", "t", "e", "r", "s", " ", "a", " ", "l", "o", "t">> >>,
   cost      |-> <<"c", "o", "s", "t">>]

\* empty state, grid and queue; the transcript handler is about to call
\* addAndReconcileForUserTurn(text, 'live') at line 1012; the gate is drawn
ScenarioInit ==
  /\ StoreInit!1
  /\ gateOpenRef \in BOOLEAN
  /\ StoreInit!3
  /\ StoreInit!4
  /\ StoreInit!5
  /\ IdemOff
  /\ TurnInit
  /\ lastEnqueue = [offered |-> 0, queued |-> 0]
  /\ channel = [calls |-> 0, sent |-> <<>>]
  /\ toolCall = NoCall
  /\ propose = ProposeNone
  /\ commits = CommitsNone
  /\ mic = MicNone
  /\ voice = VoiceNone
  /\ helpers = HelpersNone
  /\ reconcile = [ReconcileNone EXCEPT !.pc = "start", !.mode = "live",
                    !.lastUserText = Scenario.utterance,
                    !.answer = [emptyState EXCEPT !["options"] = Scenario.options,
                                                  !["facts"] = Scenario.facts]]

\* finalizeTurn calls addAndReconcileForUserTurn(lastUser, 'final') for the
\* same utterance once the reply to the turn is done
finalizeReconcile ==
  /\ reconcile.pc \in {"returned", "done"}
  /\ reconcile.mode = "live"
  /\ reconcile' = [ReconcileNone EXCEPT !.pc = "start",
                                        !.lastUserText = reconcile.lastUserText,
                                        !.answer = reconcile.answer]
  /\ UNCHANGED <<storeVars, idemVars, turnVars, lastEnqueue, channel, toolCall, propose, commits, mic, voice, helpers>>

ScenarioNext ==
  \/ addAndReconcileForUserTurn
  \/ finalizeReconcile
  \/ addAndReconcileResume
  \/ ClickAccept
  \/ ClickDiscard

ScenarioSpec == ScenarioInit /\ [][ScenarioNext]_vars

----------------------------------------------------------------------------
\* C22: no step shows the text of a user utterance: addMessage, which
\* pushes its text to chatRef and renders it into the chat element, is
\* called neither with a typed turn nor with an accepted transcript.
C22_NoRawTranscriptShown ==
  [][fx'.did \cap {"addMessage(user, typed)", "addMessage(user, transcript)"} = {}]_vars

----------------------------------------------------------------------------
\* ProposeSpec: POST /propose (server.mjs 649-710) on drawn requests

\* entries of body.transcript in one request
MaxTranscript == 2

\* proposeLocalFallback(body): options by keyword, then the first three of
\* the criteria list; \s* of the St. Pete pattern is zero or one blank here
proposeLocalFallback(body) ==
  LET RECURSIVE join(_)
      join(ts) == IF ts = <<>> THEN <<>>
                  ELSE IF Len(ts) = 1 THEN ts[1].text
                  ELSE ts[1].text \o <<" ">> \o join(Tail(ts))
      text == toLowerCase(join(body.transcript))
      item(t, o, c) == [type |-> t, option |-> o, criterion |-> c]
      stPete == \E w \in {<<"s", "t", "p", "e", "t", "e">>, <<"s", "t", " ", "p", "e", "t", "e">>, <<"s", "t", ".", "p", "e", "t", "e">>, <<"s", "t", ".", " ", "p", "e", "t", "e">>,
                          <<"s", "t", "p", "e", "t", "e", "r", "s", "b", "u", "r", "g">>, <<"s", "t", " ", "p", "e", "t", "e", "r", "s", "b", "u", "r", "g">>} : includes(text, w)
      brandon == test(text, <<[w |-> <<"b", "r", "a", "n", "d", "o", "n">>, lb |-> TRUE, rb |-> TRUE]>>)
  IN (IF stPete THEN <<item("add_option", <<"M", "o", "v", "e", " ", "t", "o", " ", "S", "t", ".", " ", "P", "e", "t", "e">>, <<>>)>> ELSE <<>>)
     \o (IF brandon THEN <<item("add_option", <<"S", "t", "a", "y", " ", "i", "n", " ", "B", "r", "a", "n", "d", "o", "n">>, <<>>)>> ELSE <<>>)
     \o <<item("add_criterion", <<>>, <<"c", "o", "s", "t">>), item("add_criterion", <<>>, <<"c", "o", "m", "m", "u", "t", "e">>),
          item("add_criterion", <<>>, <<"c", "o", "m", "m", "u", "n", "i", "t", "y">>)>>

\* the /propose handler after the method checks.  provider.key: the API key
\* is set; provider.ok: one of the two fetches answered ok; provider.parsed:
\* the proposals parsed from its text, <<>> if none could be parsed.
\* proposePrompt throws on an entry without a role (role.toUpperCase()),
\* which the outer catch answers with an empty list.
proposeHandler(body, provider) ==
  LET fatal == \E i \in 1..Len(body.transcript) : body.transcript[i].role = "undefined"
      parsed == IF provider.key /\ provider.ok THEN provider.parsed ELSE <<>>
      proposals == IF fatal THEN <<>>
                   ELSE IF parsed = <<>> THEN proposeLocalFallback(body)
                   ELSE parsed
  IN SubSeq(proposals, 1, min(12, Len(proposals)))

ProposeInit ==
  /\ StoreInit
  /\ IdemOff
  /\ TurnInit
  /\ reconcile = ReconcileNone
  /\ lastEnqueue = [offered |-> 0, queued |-> 0]
  /\ channel = [calls |-> 0, sent |-> <<>>]
  /\ toolCall = NoCall
  /\ commits = CommitsNone
  /\ mic = MicNone
  /\ voice = VoiceNone
  /\ helpers = HelpersNone
  /\ propose \in
       {[pc |-> "start", body |-> [transcript |-> t], provider |-> p, proposals |-> <<>>] :
          t \in ArrsUpTo({[role |-> "user", text |-> <<"B", "r", "a", "n", "d", "o", "n">>],
                          [role |-> "assistant", text |-> <<"S", "t", ".", " ", "P", "e", "t", "e">>],
                          [role |-> "undefined", text |-> <<"B", "r", "a", "n", "d", "o", "n">>]}, MaxTranscript),
          p \in [key : BOOLEAN, ok : BOOLEAN,
                 parsed : {<<>>, <<[type |-> "add_criterion", option |-> <<>>,
                                    criterion |-> <<"c", "o", "s", "t">>]>>}]}

\* one request is answered
proposeRequest ==
  /\ propose.pc = "start"
  /\ propose' = [propose EXCEPT !.pc = "done",
                                !.proposals = proposeHandler(propose.body, propose.provider)]
  /\ UNCHANGED <<storeVars, idemVars, turnVars, reconcile, lastEnqueue, channel, toolCall, commits, mic, voice, helpers>>

ProposeSpec == ProposeInit /\ [][proposeRequest]_vars

\* C23: when the provider call fails, yields no parsable proposals, or the
\* handling of the request fails, the answer is the local fallback list,
\* and so it is not empty.
C23_FallbackOnFailure ==
  (propose.pc = "done"
     /\ ~(propose.provider.key /\ propose.provider.ok /\ propose.provider.parsed # <<>>))
  => /\ propose.proposals = proposeLocalFallback(propose.body)
     /\ propose.proposals # <<>>

----------------------------------------------------------------------------
\* CommitSpec: push-to-talk with the manual commits and their transcripts
\* told apart.  The provider transcribes each committed buffer once, at any
\* later time.

CommitInit ==
  /\ StoreInit
  /\ IdemOff
  /\ TurnInit
  /\ reconcile = ReconcileNone
  /\ lastEnqueue = [offered |-> 0, queued |-> 0]
  /\ channel = [calls |-> 0, sent |-> <<>>]
  /\ toolCall = NoCall
  /\ propose = ProposeNone
  /\ commits = [CommitsNone EXCEPT !.on = TRUE]
  /\ mic = MicNone
  /\ voice = VoiceNone
  /\ helpers = HelpersNone

CommitSpec == CommitInit /\ [][PttNext]_vars

\* C24: a transcript is accepted as the user's turn only if it is the
\* transcript of the most recent manual commit.
C24_TranscriptOfLatestCommit ==
  [][("addMessage(user, transcript)" \in fx'.did /\ commits' # commits)
       => commits'.of = commits.made]_vars

----------------------------------------------------------------------------
\* C25: finalization re-arms the confirm gate and stages the next reply as
\* its last step: the step of the done-style event that starts finalizeTurn
\* leaves the gate and the staged reply alone, and the step after reconcile
\* and the summary refresh leaves the gate armed.
C25_FinalizeOrder ==
  [][/\ "finalizeTurn" \in fx'.did
          => speakGateRef' = speakGateRef /\ pendingSpeakRef' = pendingSpeakRef
     /\ "refreshFinalSummary" \in fx'.did => speakGateRef']_vars

----------------------------------------------------------------------------
\* GateSpec: the definition gate, the enrichment calls of a turn and the
\* proposal panel

\* proposals in an answer of /propose, which the server passes on as the
\* provider wrote them: an option, and a cell with a weight of 150.5 and a
\* confidence of 1.5
ScoutAnswers ==
  { mkProposal("add_option", <<"A">>, <<>>, 0, 0, ""),
    mkProposal("set_cell", <<"a">>, <<"b">>, 1505, 150, "") }

\* the three calls of Promise.all
HelperCalls == {"/summary", "/state", "/propose"}

\* the three answers reach the code after Promise.all only if no call threw
helpersApplied(failed) == failed = {}

\* onUserTextSend 842-851 and the transcript handler 1013-1022 once the
\* three calls have settled: failed are the calls whose postJSON threw;
\* sum.summary is stored, st.state is added by applyStatePatch, prop.proposals
\* are enqueued with source 'scout'.  The summary of a turn is numbered 1 or
\* 2 by the parity of the turn.
turnHelpers ==
  \E failed \in (IF helpers.on THEN SUBSET HelperCalls ELSE {{}, HelperCalls}),
     s \in {<<"a">>}, list \in ArrsUpTo(ScoutAnswers, MaxList) :
    LET ok == helpersApplied(failed) IN
    /\ stateRef' = IF ok THEN applyStatePatch(stateRef,
                                [add |-> <<<<"facts", <<s>>>>>>, remove |-> <<>>]).state
                   ELSE stateRef
    /\ proposalsRef' =
         IF ok /\ list # <<>>
         THEN enqueueProposals(proposalsRef, gridMDRef,
                               [i \in 1..Len(list) |-> [list[i] EXCEPT !.source = "scout"]])
         ELSE proposalsRef
    /\ patchRet' = NoRet
    /\ helpers' = IF helpers.on
                  THEN [helpers EXCEPT !.tick = ~@, !.failed = failed, !.list = list,
                                       !.summary = IF ok THEN (IF helpers.tick THEN 2 ELSE 1)
                                                   ELSE @]
                  ELSE helpers
    /\ UNCHANGED <<gateOpenRef, gridMDRef, idemVars, turnVars, reconcile, lastEnqueue,
                    channel, toolCall, propose, commits, mic, voice>>

\* editProposal(id) for the proposal at idx: w and c are what parseFloat
\* makes of the two prompts (tenths, hundredths), v is the name typed
editProposal(q, idx, w, c, v) ==
  [q EXCEPT ![idx] =
     CASE q[idx].type = "set_cell" ->
            [@ EXCEPT !.weight = clamp(-1000, 1000, w), !.conf = clamp(0, 100, c)]
       [] q[idx].type = "add_option" -> [@ EXCEPT !.option = trim(v)]
       [] q[idx].type = "add_criterion" -> [@ EXCEPT !.criterion = trim(v)]
       [] OTHER -> @]

ClickEditTo(names) ==
  \E idx \in 1..Len(proposalsRef), w \in {-1505}, c \in {150}, v \in names :
    /\ proposalsRef' = editProposal(proposalsRef, idx, w, c, v)
    /\ patchRet' = NoRet
    /\ UNCHANGED <<stateRef, gateOpenRef, gridMDRef, idemVars, turnVars, focusVars>>

ClickEdit == ClickEditTo({<<" ", "a">>})

GateNext ==
  \/ onConnect
  \/ arm
  \/ onDisconnect
  \/ turnHelpers
  \/ ClickAccept
  \/ ClickEdit
  \/ ClickDiscard

GateSpec == Init /\ [][GateNext]_vars

\* C26: while the definition gate is open no step adds a proposal to the
\* queue.
C26_NoProposalWhileGateOpen ==
  [][gateOpenRef => Len(proposalsRef') <= Len(proposalsRef)]_vars

\* C27: the step that handles the arguments-complete event of the
\* definition tool call, after connect, leaves the definition gate closed.
C27_GateClosesOnDefinition ==
  [][functionCallArgumentsDone => ~gateOpenRef']_vars

\* C28: every cell of the grid has a weight in [-100,100] and a confidence
\* in [0,1]; weights are integers by the type of the cell's field.
C28_CellsInRange ==
  \A k \in DOMAIN gridMDRef.cells :
    /\ gridMDRef.cells[k].weight \in -100..100
    /\ gridMDRef.cells[k].conf \in 0..100

-----------------------------------------------------------------------------
\* Anchor chips of a set_cell proposal (app.js 118-133, 283-321)

LIFE_AREAS ==
  <<<<"W", "o", "r", "k">>, <<"H", "e", "a", "l", "t", "h">>, <<"F", "i", "n", "a", "n", "c", "e", "s">>, <<"R", "e", "l", "a", "t", "i", "o", "n", "s", "h", "i", "p", "s">>, <<"I", "d", "e", "n", "t", "i", "t", "y">>, <<"L", "o", "g", "i", "s", "t", "i", "c", "s">>>>

\* row.querySelector('.gp-anchor.sel') for a row whose proposal has these
\* anchors: renderAnchorChips lays the chips out in LIFE_AREAS order and the
\* class sel is on exactly the chips whose name is in p.anchors, so the
\* match is the selected chip that comes first in LIFE_AREAS; <<>> is null
firstSel(anchors) ==
  LET I == {i \in 1..Len(LIFE_AREAS) :
              \E j \in 1..Len(anchors) : anchors[j] = LIFE_AREAS[i]}
  IN IF I = {} THEN <<>>
     ELSE LIFE_AREAS[CHOOSE i \in I : \A k \in I : i <= k]

\* p.anchors after a click on the chip called name
toggleAnchor(anchors, name) ==
  LET without(s, a) == SelectSeq(s, LAMBDA x : x # a)
      has == \E j \in 1..Len(anchors) : anchors[j] = name
      kept == IF Len(anchors) >= 2 /\ firstSel(anchors) # <<>>
              THEN without(anchors, firstSel(anchors))
              ELSE anchors
  IN IF has THEN without(anchors, name) ELSE Append(kept, name)

\* a click on an anchor chip in the row of the proposal at position idx
ClickAnchor ==
  \E idx \in 1..Len(proposalsRef), n \in 1..Len(LIFE_AREAS) :
    /\ proposalsRef[idx].type = "set_cell"
    /\ proposalsRef' =
         [proposalsRef EXCEPT ![idx].anchors = toggleAnchor(@, LIFE_AREAS[n])]
    /\ patchRet' = NoRet
    /\ UNCHANGED <<stateRef, gateOpenRef, gridMDRef, idemVars, turnVars, focusVars>>

AnchorNext == turnHelpers \/ ClickAnchor

AnchorSpec == Init /\ [][AnchorNext]_vars

\* C29: anchor selection on a set_cell proposal is a ring buffer of two: a
\* click never leaves more than 2 anchors on a proposal, and a click that
\* selects a new anchor while 2 are selected drops the one selected earliest
\* (the head of p.anchors, which is kept in selection order) and keeps the
\* other one
C29_AnchorRingBuffer ==
  [][\A i \in 1..Len(proposalsRef) :
       (Len(proposalsRef') >= i /\ proposalsRef'[i].anchors # proposalsRef[i].anchors)
       => LET old == proposalsRef[i].anchors
              new == proposalsRef'[i].anchors
          IN /\ Len(new) <= 2
             /\ (Len(old) = 2 /\ Len(new) = 2) => new[1] = old[2]]_vars

-----------------------------------------------------------------------------
\* C30: inbound provider events are handled one at a time: while the handler
\* of an accepted transcript event is still waiting on its enrichment calls
\* (its response.create not yet sent), the handler of no later transcript
\* event runs, neither accepting nor ignoring it
C30_OneEventAtATime ==
  [][voicePending # <<>>
       => fx'.did \cap {"addMessage(user, transcript)", "log: ignoring transcript"} = {}]_vars

-----------------------------------------------------------------------------
\* MicSpec: push-to-talk with the microphone track and the local speech
\* recognition followed

MicInit ==
  /\ StoreInit
  /\ IdemOff
  /\ TurnInit
  /\ reconcile = ReconcileNone
  /\ lastEnqueue = [offered |-> 0, queued |-> 0]
  /\ channel = [calls |-> 0, sent |-> <<>>]
  /\ toolCall = NoCall
  /\ propose = ProposeNone
  /\ commits = CommitsNone
  /\ mic = [MicNone EXCEPT !.on = TRUE]
  /\ voice = VoiceNone
  /\ helpers = HelpersNone

MicSpec == MicInit /\ [][PttNext]_vars

\* C31: while holding stays active on one connection, the assistant output
\* stays muted and the microphone track stays attached, whatever else runs
\* in between (the 150 ms tail of an earlier release, provider events)
C31_HoldKeepsMutedAndMic ==
  [][(pttActiveRef /\ pttActiveRef' /\ connRef' = connRef /\ muted /\ mic.attached)
       => (muted' /\ mic'.attached)]_vars

\* C39: every release leaves the microphone detached and the local speech
\* recognition stopped: a release with no tail ahead (a tap shorter than
\* MIN_PTT_MS) at once, a committed release once its tail has run
C39_ReleaseDetachesMic ==
  [][/\ (pttActiveRef /\ ~pttActiveRef' /\ ~tailPending' /\ connRef = "open")
          => (~mic'.attached /\ ~mic'.speech)
     /\ (tailPending /\ ~tailPending' /\ ~pttActiveRef' /\ connRef # "none")
          => (~mic'.attached /\ ~mic'.speech)]_vars

-----------------------------------------------------------------------------
\* DedupSpec: the proposal queue under enqueueProposals, editProposal,
\* acceptProposal and discardProposal, with edits that rename

\* the turn helpers, as long as the queue stays within MaxList
turnHelpersQueue == turnHelpers /\ Len(proposalsRef') <= MaxList

\* the Edit button, the user typing one of two names into the prompt
ClickRename == ClickEditTo({<<" ", "a">>, <<"b">>})

DedupNext == turnHelpersQueue \/ ClickRename \/ ClickAccept \/ ClickDiscard

DedupSpec == Init /\ [][DedupNext]_vars

\* C32: no two proposals of the queue have the same type and, compared
\* ignoring case, the same option and the same criterion
C32_QueueHasNoDuplicateKey ==
  \A i, j \in 1..Len(proposalsRef) :
    i < j => pKey(proposalsRef[i]) # pKey(proposalsRef[j])

-----------------------------------------------------------------------------
\* C33: when the provider reports input_audio_buffer_commit_empty, the
\* manual-commit marker is cleared and no commit is sent again; from then
\* on no transcript is accepted while the marker is clear, the acceptance
\* window running or not, and only a hold-release that sends a commit sets
\* the marker again
C33_EmptyCommitClearsMarker ==
  /\ [][("error" \in fx'.did)
          => (~manualCommitRef' /\ fx'.out = <<>> /\ outboxRef' = outboxRef)]_vars
  /\ [][~manualCommitRef => Len(voicePending') <= Len(voicePending)]_vars
  /\ [][(~manualCommitRef /\ manualCommitRef')
          => (pttActiveRef /\ ~pttActiveRef' /\ heldLong
              /\ BufferCommit \in sent(fx'.out) \cup sent(outboxRef'))]_vars

\* C33 witness: the error was handled on an open connection while the
\* acceptance window of the commit was still running and the key was up
C33_Witness ==
  /\ "error" \in fx.did
  /\ connRef = "open"
  /\ windowOpen
  /\ ~pttActiveRef
  /\ ~manualCommitRef

-----------------------------------------------------------------------------
\* VoiceSpec: the voice engine of the two-engine client (part_001) and a
\* provider that answers response.create, may answer speech on its own
\* (server_vad) and may report an error

\* events under way to the client at once; the last place is kept for the
\* provider's answers (response.created, response.done, the error that
\* answers a response.create), so that what the user does cannot hold them up
MaxInbox == 3
\* errors the provider reports in one run, besides those that answer a
\* response.create sent while a response is in progress
MaxErrors == 1
\* response ids: one the client does not refer to any more is used again
VoiceRids == {1, 2}

voiceEvent(type, rid) == [type |-> type, rid |-> rid]

\* sendVoiceReply() with a connection
sendVoiceReply(v) ==
  IF v.busy THEN [v EXCEPT !.pending = TRUE]
  ELSE [v EXCEPT !.busy = TRUE, !.voiceRid = 0, !.toServer = @ + 1, !.want = FALSE]

\* handleServerEvent(ev) of part_001
voiceHandle(v, ev) ==
  CASE ev.type = "input_audio_buffer.speech_stopped" ->
         sendVoiceReply([v EXCEPT !.want = TRUE])
    [] ev.type = "response.created" ->
         [v EXCEPT !.voiceRid = ev.rid]
    [] ev.type = "response.done" ->
         IF ev.rid # 0 /\ ev.rid = v.voiceRid
         THEN LET w == [v EXCEPT !.busy = FALSE, !.voiceRid = 0] IN
              IF w.pending THEN sendVoiceReply([w EXCEPT !.pending = FALSE]) ELSE w
         ELSE v
    [] ev.type = "error" ->
         [v EXCEPT !.busy = TRUE, !.erred = TRUE]
    [] OTHER -> v

\* ids no event under way and no ref of the client mentions
freeRids(v) ==
  {r \in VoiceRids : r # v.voiceRid /\ r # v.active
                      /\ \A i \in 1..Len(v.inbox) : v.inbox[i].rid # r}

othersUnchanged ==
  UNCHANGED <<storeVars, idemVars, turnVars, reconcile, lastEnqueue, channel, toolCall,
              propose, commits, mic, helpers>>

\* onConnect and dc.onopen: sendGreeting
voiceConnect ==
  /\ ~voice.conn
  /\ voice' = [voice EXCEPT !.conn = TRUE, !.busy = TRUE, !.toServer = 1]
  /\ othersUnchanged

\* onDisconnect; the connection and what was under way on it are gone
voiceDisconnect ==
  /\ voice.conn
  /\ voice' = [VoiceNone EXCEPT !.errors = voice.errors]
  /\ othersUnchanged

\* dc.onmessage: the event at the head of the channel is handled
voiceOnMessage ==
  /\ voice.conn
  /\ voice.inbox # <<>>
  /\ voice' = voiceHandle([voice EXCEPT !.inbox = Tail(@)], Head(voice.inbox))
  /\ othersUnchanged

\* the user stops speaking, the provider having taken up what the client
\* sent before; the provider reports it and starts no response
speechStopped ==
  /\ voice.conn
  /\ voice.toServer = 0
  /\ Len(voice.inbox) + 1 < MaxInbox
  /\ voice' = [voice EXCEPT
                 !.inbox = Append(@, voiceEvent("input_audio_buffer.speech_stopped", 0))]
  /\ othersUnchanged

\* the user stops speaking; the provider reports it and starts a response
\* of its own (turn_detection server_vad)
speechStoppedWithReply ==
  \E r \in freeRids(voice) :
    /\ voice.conn
    /\ voice.toServer = 0
    /\ voice.active = 0
    /\ Len(voice.inbox) + 2 < MaxInbox
    /\ voice' = [voice EXCEPT
                   !.active = r,
                   !.inbox = @ \o <<voiceEvent("input_audio_buffer.speech_stopped", 0),
                                    voiceEvent("response.created", r)>>]
    /\ othersUnchanged

\* the provider receives a response.create: it starts the response, or
\* reports conversation_already_has_active_response
providerCreate ==
  /\ voice.conn
  /\ voice.toServer > 0
  /\ Len(voice.inbox) < MaxInbox
  /\ IF voice.active # 0
     THEN voice' = [voice EXCEPT !.toServer = @ - 1,
                                 !.inbox = Append(@, voiceEvent("error", 0))]
     ELSE \E r \in freeRids(voice) :
            voice' = [voice EXCEPT !.toServer = @ - 1, !.active = r,
                                   !.inbox = Append(@, voiceEvent("response.created", r))]
  /\ othersUnchanged

\* the provider finishes its response
providerDone ==
  /\ voice.conn
  /\ voice.active # 0
  /\ Len(voice.inbox) < MaxInbox
  /\ voice' = [voice EXCEPT !.active = 0,
                            !.inbox = Append(@, voiceEvent("response.done", voice.active))]
  /\ othersUnchanged

\* the provider reports an error of another kind
providerError ==
  /\ voice.conn
  /\ voice.errors < MaxErrors
  /\ Len(voice.inbox) + 1 < MaxInbox
  /\ voice' = [voice EXCEPT !.errors = @ + 1, !.inbox = Append(@, voiceEvent("error", 0))]
  /\ othersUnchanged

VoiceNext ==
  \/ voiceConnect
  \/ voiceDisconnect
  \/ voiceOnMessage
  \/ speechStopped
  \/ speechStoppedWithReply
  \/ providerCreate
  \/ providerDone
  \/ providerError

VoiceSpec == Init /\ [][VoiceNext]_vars

\* the channel delivers, the client handles what arrives, and the provider
\* takes up every response.create and finishes every response; the user and
\* the provider's own initiative are under no obligation
VoiceLiveSpec ==
  /\ VoiceSpec
  /\ WF_vars(voiceOnMessage)
  /\ WF_vars(providerCreate)
  /\ WF_vars(providerDone)

\* C34: in the two-engine client, once an error has been handled, a reply
\* asked for at a speech_stopped is eventually sent with response.create
\* (or the session ends)
C34_ErrorDoesNotStall ==
  [](voice.erred /\ voice.want => <>(~voice.want))

-----------------------------------------------------------------------------
\* TurnSpec: voice turns and the responses of the provider, with one
\* response more than in Spec, so that the greeting's response can be
\* followed by another.  Typed turns, the confirm click and the policy
\* switch are left out.

responseCreatedNext == responseCreatedUpTo(MaxResp + 1)

TurnNext ==
  \/ onConnect
  \/ arm
  \/ onDisconnect
  \/ onKeyDown
  \/ HoldElapses
  \/ onKeyUpShort
  \/ onKeyUpCommit
  \/ onKeyUpTail
  \/ WindowElapses
  \/ bufferCommitted
  \/ speechStarted
  \/ transcriptionCompleted
  \/ transcriptionResume
  \/ responseCreatedNext
  \/ responseTextDone
  \/ responseDone
  \/ finalizeTurnResume
  \/ outputAudioBufferStarted
  \/ outputAudioBufferCleared

TurnSpec == Init /\ [][TurnNext]_vars

-----------------------------------------------------------------------------
\* C35: a response.created that answers a response.create of the
\* coordinator and arrives while the user is not holding is tracked as the
\* current response and is not answered with response.cancel.  Stated for
\* the response.create sent after an accepted voice transcript, when it is
\* the only one unanswered and response.created is the next event handled.
C35_OwnReplyTracked ==
  [][("addAndReconcileForUserTurn" \in fx.did /\ countCreates(fx.out) = 1 /\ owed = 1
        /\ provRid' # provRid /\ provSol' /\ ~pttActiveRef)
       => /\ currentResponseIdRef' = provRid'
          /\ respPendingRef'
          /\ Cancel(provRid') \notin sent(fx'.out)]_vars

----------------------------------------------------------------------------
\* C36: a response.done or response.text.done event of a response other
\* than the tracked one never runs finalizeTurn for the tracked response,
\* whether or not the event names its response.
C36_ForeignDoneNeverFinalizes ==
  [][(fx'.did \cap {"response.done", "response.text.done"} # {}
        /\ respPendingRef /\ currentResponseIdRef # NoRid
        /\ provRid # currentResponseIdRef)
       => ("finalizeTurn" \notin fx'.did /\ respPendingRef'
           /\ currentResponseIdRef' = currentResponseIdRef)]_vars

----------------------------------------------------------------------------
\* C37: whenever no response is tracked or pending and the provider has none
\* in flight, the assistant-speaking flag is down, so that a talk-key press
\* is not ignored.
C37_TalkKeyNeverBlocked ==
  (connRef = "open" /\ currentResponseIdRef = NoRid /\ ~respPendingRef
     /\ provPhase # "active" /\ finalizePending = 0)
    => ~assistantSpeakingRef

----------------------------------------------------------------------------
\* C38: when a cancel has muted the output and output_audio_buffer.cleared
\* has arrived while the user was holding, the output is unmuted once the
\* release (its 150 ms tail included) has run.
C38_UnmutedAfterRelease ==
  [][(connRef = "open" /\ unmuteWhenClearedRef /\ ~awaitingClear
        /\ tailPending /\ ~tailPending' /\ ~pttActiveRef')
       => ~muted']_vars

----------------------------------------------------------------------------
\* HelperSpec: the enrichment calls of a turn with the outcome of each call
\* followed

HelperInit ==
  /\ StoreInit
  /\ IdemOff
  /\ TurnInit
  /\ reconcile = ReconcileNone
  /\ lastEnqueue = [offered |-> 0, queued |-> 0]
  /\ channel = [calls |-> 0, sent |-> <<>>]
  /\ toolCall = NoCall
  /\ propose = ProposeNone
  /\ commits = CommitsNone
  /\ mic = MicNone
  /\ voice = VoiceNone
  /\ helpers = [HelpersNone EXCEPT !.on = TRUE]

HelperSpec == HelperInit /\ [][GateNext]_vars

\* C40: after the three calls of a turn have settled with at least one
\* failed, the answer of each call that succeeded is applied to its slice:
\* the summary is stored, the extracted state is added, the proposals are
\* enqueued.
C40_HelpersIndependent ==
  [][(helpers'.tick # helpers.tick /\ helpers'.failed # {})
       => /\ "/summary" \notin helpers'.failed
               => helpers'.summary = (IF helpers'.tick THEN 1 ELSE 2)
          /\ "/state" \notin helpers'.failed
               => stateRef' = applyStatePatch(stateRef,
                                [add |-> <<<<"facts", <<<<"a">>>>>>>>, remove |-> <<>>]).state
          /\ ("/propose" \notin helpers'.failed /\ helpers'.list # <<>>)
               => proposalsRef' =
                    enqueueProposals(proposalsRef, gridMDRef,
                      [i \in 1..Len(helpers'.list) |->
                         [helpers'.list[i] EXCEPT !.source = "scout"]])]_vars

====
